---- MODULE Spec2Model ----
(***************************************************************************)
(* Model of the recurrent-subnetwork engine of returnn/tf/layers/rec.py:   *)
(* _SubnetworkRecCell (template construction, moving layers out of the     *)
(* loop, the step loop, search resolution) and _TemplateLayer.             *)
(***************************************************************************)
EXTENDS Integers, Sequences, FiniteSets, TLC

\* ------------------------------------------------------------------ bounds
\* Total number of "from" references of a subnet definition.
MaxRefs == 3

\* ------------------------------------------------------------------- names
\* Keys of net_dict.  "output" is always required, "end" ends a sequence.
NetNames == {"output", "end", "a", "b"}
SubNames == {"a/sub"}
DataNames == {"data:source"}
AllNames == NetNames \cup SubNames \cup DataNames

\* sorted(...) of layer names (Python string order).
SortedNames == <<"a", "a/sub", "b", "data:source", "end", "output">>

IsSub(name) == name \in SubNames
IsData(name) == name \in DataNames
RootOf(name) == IF name = "a/sub" THEN "a" ELSE name

\* A reference in a "from" list: a plain name, or "prev:<name>" when p.
\* The layers read are "output", "a", the sub-layer of "a" and the data.
Ref(n, p) == [n |-> n, p |-> p]
RefSet ==
  {Ref(x, FALSE) : x \in {"output", "a", "a/sub", "data:source"}}
    \cup {Ref(x, TRUE) : x \in {"output", "a"}}

Range(s) == {s[i] : i \in 1..Len(s)}
InSeq(x, s) == \E i \in 1..Len(s) : s[i] = x

RECURSIVE RemoveFirst(_, _)
RemoveFirst(s, x) ==
  IF s = <<>> THEN <<>>
  ELSE IF Head(s) = x THEN Tail(s)
  ELSE <<Head(s)>> \o RemoveFirst(Tail(s), x)

SeqOfSorted(S) == SelectSeq(SortedNames, LAMBDA x : x \in S)

\* "from" lists without repetition, of length n / of length at most n.
RECURSIVE FromListsOfLen(_)
FromListsOfLen(n) ==
  IF n = 0 THEN {<<>>}
  ELSE UNION {{Append(s, r) : r \in RefSet \ Range(s)} : s \in FromListsOfLen(n - 1)}

FromListsUpTo(n) == UNION {FromListsOfLen(k) : k \in 0..n}

\* ---------------------------------------------------------- _TemplateLayer
\* _TemplateLayer.__init__: a dummy descriptor, not initialized, no dependencies.
NewTemplateLayer ==
  [exists |-> TRUE, is_initialized |-> FALSE, output |-> "dummy",
   dependencies |-> <<>>, cur_frame_dependencies |-> <<>>, prev_frame_dependencies |-> <<>>,
   search_choices |-> FALSE, is_output_layer |-> FALSE, n_init |-> 0]

NoTemplateLayer == [NewTemplateLayer EXCEPT !.exists = FALSE]

\* An add_dependency that appends to the dependencies whatever they hold.
add_dependency_append(tl, layer, is_prev_time_frame) ==
  LET deps == Append(tl.dependencies, layer)
  IN  IF is_prev_time_frame
      THEN [tl EXCEPT !.dependencies = deps,
                      !.prev_frame_dependencies =
                         IF InSeq(layer, @) THEN @ ELSE Append(@, layer)]
      ELSE [tl EXCEPT !.dependencies = deps,
                      !.cur_frame_dependencies =
                         IF InSeq(layer, @) THEN @ ELSE Append(@, layer)]

\* _TemplateLayer.add_dependency(layer, is_prev_time_frame)
add_dependency(tl, layer, is_prev_time_frame) ==
  LET deps == IF InSeq(layer, tl.dependencies) THEN tl.dependencies
              ELSE Append(tl.dependencies, layer)
  IN  IF is_prev_time_frame
      THEN [tl EXCEPT !.dependencies = deps,
                      !.prev_frame_dependencies =
                         IF InSeq(layer, @) THEN @ ELSE Append(@, layer)]
      ELSE [tl EXCEPT !.dependencies = deps,
                      !.cur_frame_dependencies =
                         IF InSeq(layer, @) THEN @ ELSE Append(@, layer)]

\* An init that refuses a layer that is initialized already.
TemplateInit_once(tl, output, has_choices, is_output_layer) ==
  IF tl.is_initialized THEN tl
  ELSE [tl EXCEPT !.output = output, !.search_choices = has_choices,
                  !.is_output_layer = is_output_layer,
                  !.is_initialized = TRUE, !.n_init = @ + 1]

\* _TemplateLayer.init(output, layer_class, ...): sets the descriptor and, last,
\* is_initialized.  There is no check that the layer was not initialized before.
TemplateInit(tl, output, has_choices, is_output_layer) ==
  [tl EXCEPT !.output = output, !.search_choices = has_choices,
             !.is_output_layer = is_output_layer,
             !.is_initialized = TRUE, !.n_init = @ + 1]

\* A layer object handed to a layer under construction: the template itself
\* (copy = FALSE, read when used) or a copy_as_prev_time_frame of it
\* (copy = TRUE, carrying the descriptor it had when copied).
LayerRef(name, copy, output) == [name |-> name, copy |-> copy, output |-> output]

NoLayerRef == LayerRef("", FALSE, "dummy")

\* layer_class.get_out_data_from_opts: layers such as CombineLayer take the
\* output format of their first source; a layer without sources has its own.
get_out_data_from_opts(tmpl, sources) ==
  IF sources = <<>> THEN "shape"
  ELSE IF sources[1].copy THEN sources[1].output
  ELSE tmpl[sources[1].name].output

\* ------------------------------------------- _TemplateLayer objects and lists
\* Template layers as objects: "layers" holds the objects, "lists" the list
\* objects; the fields dependencies, cur_frame_dependencies and
\* prev_frame_dependencies of an object hold the place of a list in "lists",
\* template_base the place of an object in "layers" (0: None).
NoTemplateLayers == [layers |-> <<>>, lists |-> <<>>]

\* _TemplateLayer(name=name, ...): the dummy descriptor and three new lists.
new_template_layer(H, name) ==
  [layers |-> Append(H.layers,
                     [name |-> name, is_prev_time_frame |-> FALSE,
                      is_data_template |-> FALSE, template_base |-> 0]
                     @@ [NewTemplateLayer EXCEPT
                           !.dependencies = Len(H.lists) + 1,
                           !.cur_frame_dependencies = Len(H.lists) + 2,
                           !.prev_frame_dependencies = Len(H.lists) + 3]),
   lists |-> H.lists \o <<<<>>, <<>>, <<>>>>]

\* The object i with its lists read.
TemplateLayerAt(H, i) ==
  [H.layers[i] EXCEPT !.dependencies = H.lists[@],
                      !.cur_frame_dependencies = H.lists[@],
                      !.prev_frame_dependencies = H.lists[@]]

\* layers[i].init(output, layer_class, template_type): output.copy() is kept.
template_layer_init(H, i, output, template_type) ==
  [H EXCEPT !.layers[i] =
     [TemplateInit(@, output, FALSE, FALSE) EXCEPT
        !.is_prev_time_frame = (template_type = "prev"),
        !.is_data_template = (template_type = "template")]]

\* layers[i].add_dependency(layer, is_prev_time_frame): the appends go to the
\* list objects of layers[i].
template_layer_add_dependency(H, i, layer, is_prev_time_frame) ==
  LET tl == add_dependency(TemplateLayerAt(H, i), layer, is_prev_time_frame)
  IN  [H EXCEPT
         !.lists = [k \in DOMAIN H.lists |->
                      IF k = H.layers[i].dependencies THEN tl.dependencies
                      ELSE IF k = H.layers[i].cur_frame_dependencies
                      THEN tl.cur_frame_dependencies
                      ELSE IF k = H.layers[i].prev_frame_dependencies
                      THEN tl.prev_frame_dependencies
                      ELSE H.lists[k]]]

\* layers[i].copy_as_prev_time_frame(): a new object, "layer.dependencies =
\* self.dependencies", and init with the kwargs of layers[i].
copy_as_prev_time_frame(H, i) ==
  LET H1 == new_template_layer(H, "prev:" \o H.layers[i].name)
      j == Len(H1.layers)
      H2 == [H1 EXCEPT !.layers[j].template_base = i,
                       !.layers[j].dependencies = H.layers[i].dependencies]
  IN  template_layer_init(H2, j, H.layers[i].output, "prev")

\* ------------------------------------------ _construct_template: ConstructCtx
\* A GetLayer instance.  parent = 0: no parent.
NewGetLayer(allow_uninitialized_template, iterative_testing, reconstruct, parent) ==
  [allow_uninitialized_template |-> allow_uninitialized_template,
   iterative_testing |-> iterative_testing, reconstruct |-> reconstruct,
   parent |-> parent, got_uninitialized_deps_count |-> 0]

\* State of a template construction: the cell's maps and ConstructCtx.
\*   net        net_dict, with the search flag and the layer classes
\*   tmpl       layer_data_templates (exists = the key is present)
\*   pf         ConstructCtx.partially_finished
\*   layers     ConstructCtx.layers, the stack of layers under construction
\*   cstack     net._construction_stack.layers
\*   getters    the GetLayer instances created so far
\*   prev_needed  prev_layers_needed
\*   prev_tmpl  prev_layer_templates: descriptor of the cached prev template
\*   excs       kinds of the collected exceptions
\*   loop_started   len(partially_finished) when the refinement loop started
\*   pass_started, pass_constructed   of the last pass of the refinement loop:
\*              partially_finished when it started, and the layers it called
\*              direct_get_layer.construct for, in order
NewConstructCtx(net) ==
  [net |-> net,
   tmpl |-> [x \in AllNames |-> NoTemplateLayer],
   pf |-> <<>>, layers |-> <<>>, cstack |-> <<>>, getters |-> <<>>,
   prev_needed |-> {}, prev_tmpl |-> [x \in AllNames |-> "none"],
   excs |-> {}, loop_started |-> 0, pass_started |-> <<>>, pass_constructed |-> <<>>]

\* Result of a call: the state, the exception raised ("none", "loop" for
\* NetworkConstructionDependencyLoopException, "error" for any other), the layer.
Ret(st, layer) == [st |-> st, exc |-> "none", layer |-> layer]
Raise(st, exc) == [st |-> st, exc |-> exc, layer |-> NoLayerRef]

\* ConstructCtx.collect_exception
collect_exception(st, exc) == [st EXCEPT !.excs = @ \cup {exc}]

\* An _add_uninitialized_count that counts nothing.
add_uninitialized_count_none(st, g) ==
  st

\* GetLayer._add_uninitialized_count: the getter and all its parents.
RECURSIVE add_uninitialized_count(_, _)
add_uninitialized_count(st, g) ==
  IF g = 0 THEN st
  ELSE add_uninitialized_count(
         [st EXCEPT !.getters[g].got_uninitialized_deps_count = @ + 1],
         st.getters[g].parent)

\* ConstructCtx.layers[-1].add_dependency(layer_, ...) if ConstructCtx.layers
AddDepToTop(st, name, is_prev_time_frame) ==
  IF st.layers = <<>> THEN st
  ELSE LET top == st.layers[Len(st.layers)]
       IN  [st EXCEPT !.tmpl[top] = add_dependency(@, name, is_prev_time_frame)]

\* _SubnetworkRecCell.get_prev_template_layer: the cached prev template, made
\* by copy_as_prev_time_frame on first use.
get_prev_template_layer(st, name) ==
  IF st.prev_tmpl[name] # "none" THEN Ret(st, LayerRef(name, TRUE, st.prev_tmpl[name]))
  ELSE Ret([st EXCEPT !.prev_tmpl[name] = st.tmpl[name].output],
           LayerRef(name, TRUE, st.tmpl[name].output))

\* GetLayer.add_templated_layer
add_templated_layer(st, g, name, sources) ==
  LET output == get_out_data_from_opts(st.tmpl, sources)
      s1 == [st EXCEPT !.tmpl[name] =
               TemplateInit(@, output, st.net.search_flag /\ name \in st.net.choices,
                            name \in st.net.is_output_layer)]
      finished == InSeq(name, s1.pf) /\ s1.getters[g].got_uninitialized_deps_count = 0
      subs == {x \in SubNames : RootOf(x) = name /\ s1.tmpl[x].exists}
      s2 == IF finished
            THEN [s1 EXCEPT !.pf = SelectSeq(@, LAMBDA x : x # name /\ x \notin subs)]
            ELSE s1
  IN  Ret(s2, LayerRef(name, FALSE, output))

\* ------------------------------------------------- GetLayer.__call__ and co.
RECURSIVE GetLayerCall(_, _, _, _)
RECURSIVE GetLayerByName(_, _, _, _)
RECURSIVE GetSubLayerTemplate(_, _, _, _)
RECURSIVE CreateTemplateLayer(_, _, _, _)
RECURSIVE ConstructLayer(_, _, _)
RECURSIVE TransformConfigDict(_, _, _, _)

\* GetLayer.__call__, "prev:" branch, once the layer r is there: the cached
\* prev template of a finished layer, a fresh copy_as_prev_time_frame of a
\* partially finished one, the template itself when it is not initialized.
get_prev_layer(r, g, name) ==
  IF r.exc # "none" THEN r
  ELSE IF ~r.st.tmpl[name].exists THEN r
  ELSE IF r.st.tmpl[name].is_initialized
  THEN IF ~InSeq(name, r.st.pf)
       THEN get_prev_template_layer(r.st, name)
       ELSE LET s == add_uninitialized_count(r.st, g)
            IN  Ret(s, LayerRef(name, TRUE, s.tmpl[name].output))
  ELSE Ret(add_uninitialized_count(r.st, g), r.layer)

\* GetLayer.__call__(name, is_prev_time_frame): the "prev:" branch, else the rest.
GetLayerCall(st, g, ref, is_prev_time_frame) ==
  IF ref.p
  THEN get_prev_layer(
         GetLayerByName([st EXCEPT !.prev_needed = @ \cup {ref.n}], g, ref.n, TRUE), g, ref.n)
  ELSE GetLayerByName(st, g, ref.n, is_prev_time_frame)

\* GetLayerByName without the branch for allow_uninitialized_template.
GetLayerByName_strict(st, g, name, is_prev_time_frame) ==
  LET exists == st.tmpl[name].exists
      tl == st.tmpl[name]
      getter == st.getters[g]
      s1 == IF exists THEN AddDepToTop(st, name, is_prev_time_frame) ELSE st
      layer_ == LayerRef(name, FALSE, tl.output)
  IN  IF exists /\ ~getter.reconstruct /\ tl.is_initialized
      THEN Ret(IF InSeq(name, st.pf) THEN add_uninitialized_count(s1, g) ELSE s1, layer_)
      ELSE IF IsSub(name)
      THEN GetSubLayerTemplate(s1, g, name, is_prev_time_frame)
      ELSE CreateTemplateLayer(s1, g, name, is_prev_time_frame)

\* GetLayer.__call__ for a name without "prev:": an existing template is
\* returned at once when the getter allows it; else sub-layer or creation.
GetLayerByName(st, g, name, is_prev_time_frame) ==
  LET exists == st.tmpl[name].exists
      tl == st.tmpl[name]
      getter == st.getters[g]
      s1 == IF exists THEN AddDepToTop(st, name, is_prev_time_frame) ELSE st
      layer_ == LayerRef(name, FALSE, tl.output)
  IN  IF exists /\ getter.allow_uninitialized_template
      THEN Ret(IF ~tl.is_initialized \/ InSeq(name, st.pf)
               THEN add_uninitialized_count(s1, g) ELSE s1, layer_)
      ELSE IF exists /\ ~getter.reconstruct /\ tl.is_initialized
      THEN Ret(IF InSeq(name, st.pf) THEN add_uninitialized_count(s1, g) ELSE s1, layer_)
      ELSE IF IsSub(name)
      THEN GetSubLayerTemplate(s1, g, name, is_prev_time_frame)
      ELSE CreateTemplateLayer(s1, g, name, is_prev_time_frame)

\* _TemplateLayer.get_sub_layer of the root layer r: the sub-layer template is
\* (re-)initialized from the root layer's kwargs.  An uninitialized root has no
\* layer class: error.
get_sub_layer(r, name, is_prev_time_frame) ==
  IF r.exc # "none" THEN r
  ELSE IF ~r.layer.copy /\ ~r.st.tmpl[RootOf(name)].is_initialized
  THEN Raise(r.st, "error")
  ELSE LET output == IF r.layer.copy THEN r.layer.output
                     ELSE r.st.tmpl[RootOf(name)].output
           s1 == [r.st EXCEPT !.tmpl[name] =
                    TemplateInit(IF @.exists THEN @ ELSE NewTemplateLayer, output, FALSE,
                                 r.st.tmpl[RootOf(name)].is_output_layer)]
           s2 == AddDepToTop(s1, name, is_prev_time_frame)
       IN  Ret(IF s2.layers # <<>> /\ ~InSeq(name, s2.pf)
               THEN [s2 EXCEPT !.pf = Append(@, name)] ELSE s2,
               LayerRef(name, FALSE, output))

\* GetLayer.__call__, '/' in name: get the root layer, then its sub-layer.
GetSubLayerTemplate(st, g, name, is_prev_time_frame) ==
  get_sub_layer(GetLayerCall(st, g, [n |-> RootOf(name), p |-> is_prev_time_frame], FALSE),
                name, is_prev_time_frame)

\* What the loop over get_layer_candidates leaves: the state and default_success.
Candidates(st, default_success) == [st |-> st, default_success |-> default_success]

\* The second candidate has returned or raised: its exception is collected.
candidate_allow_done(try2) ==
  Candidates(IF try2.exc # "none" THEN collect_exception(try2.st, try2.exc) ELSE try2.st,
             FALSE)

\* The first candidate (default_get_layer) has returned or raised; when it
\* raised, the exception is collected and the second candidate, which allows
\* uninitialized templates, is tried.
candidate_default_done(try1, allow_get_layer, name) ==
  IF try1.exc = "none" THEN Candidates(try1.st, TRUE)
  ELSE candidate_allow_done(
         ConstructLayer(collect_exception(try1.st, try1.exc), allow_get_layer, name))

\* "if not default_success": the full construction with default_get_layer.
full_construction(c, default_get_layer, name) ==
  IF c.default_success THEN Ret(c.st, NoLayerRef)
  ELSE ConstructLayer(
         [c.st EXCEPT !.getters[default_get_layer].got_uninitialized_deps_count = 0],
         default_get_layer, name)

\* The end of the creation: a dependency loop is tolerated for a template that
\* is initialized; ConstructCtx.layers is popped (finally); the count of
\* uninitialized dependencies goes up when the default getter did not succeed.
end_create_template(try3, getter, g, name) ==
  LET default_success == try3.exc = "none"
      tolerated == try3.exc = "loop" /\ try3.st.tmpl[name].is_initialized
                   /\ getter.iterative_testing /\ ~getter.reconstruct
      s6 == [try3.st EXCEPT !.layers = SubSeq(@, 1, Len(@) - 1)]
  IN  IF ~default_success /\ ~tolerated THEN Raise(s6, try3.exc)
      ELSE IF ~s6.tmpl[name].is_initialized THEN Raise(s6, "error")
      ELSE Ret(IF default_success THEN s6 ELSE add_uninitialized_count(s6, g),
               LayerRef(name, FALSE, s6.tmpl[name].output))

\* GetLayer.__call__, creation of the template: the two candidates (default
\* getter, then one allowing uninitialized templates), then the full
\* recursive construction with the default getter.
CreateTemplateLayer(st, g, name, is_prev_time_frame) ==
  LET s1 == IF st.tmpl[name].exists THEN st ELSE [st EXCEPT !.tmpl[name] = NewTemplateLayer]
      s2 == AddDepToTop(s1, name, is_prev_time_frame)
      default_get_layer == Len(st.getters) + 1
      allow_get_layer == Len(st.getters) + 2
      candidates == st.getters[g].iterative_testing /\ ~InSeq(name, st.cstack)
      s4 == [s2 EXCEPT !.pf = IF InSeq(name, @) THEN @ ELSE Append(@, name),
                       !.getters = @ \o <<NewGetLayer(FALSE, TRUE, FALSE, g)>>
                                     \o (IF candidates THEN <<NewGetLayer(TRUE, TRUE, FALSE, g)>>
                                         ELSE <<>>),
                       !.layers = Append(@, name)]
  IN  end_create_template(
        full_construction(
          IF candidates
          THEN candidate_default_done(ConstructLayer(s4, default_get_layer, name),
                                      allow_get_layer, name)
          ELSE Candidates(s4, FALSE),
          default_get_layer, name),
        st.getters[g], g, name)

\* net.construct_layer, once the sources are resolved: the name leaves the
\* construction stack, and add_layer is called unless get_layer raised.
end_construct_layer(r, g, name) ==
  LET s1 == [r.st EXCEPT !.cstack = RemoveFirst(@, name)]
  IN  IF r.exc # "none" THEN Raise(s1, r.exc)
      ELSE add_templated_layer(s1, g, name, r.sources)

\* net.construct_layer(net_dict, name, get_layer, add_layer): a name on the
\* network's construction stack is a dependency loop; the layer's "from"
\* entries are resolved through get_layer, in order; then add_layer.
ConstructLayer(st, g, name) ==
  IF InSeq(name, st.cstack) THEN Raise(st, "loop")
  ELSE IF ~IsData(name) /\ name \notin st.net.declared THEN Raise(st, "error")
  ELSE end_construct_layer(
         TransformConfigDict([st EXCEPT !.cstack = Append(@, name)], g,
                             IF IsData(name) THEN <<>> ELSE st.net.from[name], <<>>),
         g, name)

\* The sources resolved so far, and the exception if get_layer raised.
Sources(st, exc, sources) ==
  [st |-> st, exc |-> exc, layer |-> NoLayerRef, sources |-> sources]

\* get_layer(src) has returned r: the next source, unless it raised.
next_source(r, g, refs, sources) ==
  IF r.exc # "none" THEN Sources(r.st, r.exc, sources)
  ELSE TransformConfigDict(r.st, g, refs, Append(sources, r.layer))

\* layer_class.transform_config_dict: sources = [get_layer(src) for src in from]
TransformConfigDict(st, g, refs, sources) ==
  IF refs = <<>> THEN Sources(st, "none", sources)
  ELSE next_source(GetLayerCall(st, g, Head(refs), FALSE), g, Tail(refs), sources)

\* GetLayer.construct, after the call: any exception is collected.  The
\* getters created inside the call are dropped when it is over.
end_construct(r) ==
  [(IF r.exc # "none" THEN collect_exception(r.st, r.exc) ELSE r.st)
     EXCEPT !.getters = SubSeq(@, 1, 2)]

\* GetLayer.construct(layer_name): reset, call, collect any exception.
construct(st, g, name) ==
  end_construct(GetLayerCall([st EXCEPT !.getters[g].got_uninitialized_deps_count = 0], g,
                             [n |-> name, p |-> FALSE], FALSE))

\* get_templated_layer = GetLayer(); direct_get_layer = GetLayer(
\* iterative_testing=False, reconstruct=True)
get_templated_layer == 1
direct_get_layer == 2

\* State at the start of _construct_template.
StartConstructTemplate(net) ==
  [NewConstructCtx(net) EXCEPT
     !.getters = <<NewGetLayer(FALSE, TRUE, FALSE, 0), NewGetLayer(FALSE, FALSE, TRUE, 0)>>]

\* The layers constructed by the first sweep, in order: "output", "end" if in
\* net_dict, then the layers with is_output_layer, sorted.
FirstSweep(net) ==
  <<"output">> \o (IF "end" \in net.declared THEN <<"end">> ELSE <<>>)
               \o SeqOfSorted(net.is_output_layer)

\* for layer in ConstructCtx.partially_finished: ... of the refinement loop.
\* The list is iterated by position while construct() changes it.
RECURSIVE RefineFor(_, _, _)

\* The same with every reconstruction counted as a change.
refine_next_changed(s1, layer, old_output, i, recent_changes) ==
  RefineFor(s1, i + 1, TRUE)

\* After construct(layer): has the output of the layer changed?  Then on.
refine_next(s1, layer, old_output, i, recent_changes) ==
  RefineFor(s1, i + 1, recent_changes \/ s1.tmpl[layer].output # old_output)

RefineFor(st, i, recent_changes) ==
  IF i > Len(st.pf) THEN [st |-> st, recent_changes |-> recent_changes]
  ELSE refine_next(construct([st EXCEPT !.pass_constructed = Append(@, st.pf[i])],
                             direct_get_layer, st.pf[i]),
                   st.pf[i], st.tmpl[st.pf[i]].output, i, recent_changes)

\* ------------------------------------------------------- _move_outside_loop
\* visit(deps): depth-first, data layers skipped.
\* visit without the test for data layers.
RECURSIVE visit_with_data(_, _, _)
visit_with_data(tmpl, deps, layers) ==
  IF deps = <<>> THEN layers
  ELSE LET layer == Head(deps)
       IN  IF InSeq(layer, layers)
           THEN visit_with_data(tmpl, Tail(deps), layers)
           ELSE visit_with_data(tmpl, Tail(deps),
                  visit_with_data(tmpl, tmpl[layer].dependencies, Append(layers, layer)))

RECURSIVE visit(_, _, _)
visit(tmpl, deps, layers) ==
  IF deps = <<>> THEN layers
  ELSE LET layer == Head(deps)
       IN  IF IsData(layer) \/ InSeq(layer, layers)
           THEN visit(tmpl, Tail(deps), layers)
           ELSE visit(tmpl, Tail(deps),
                      visit(tmpl, tmpl[layer].dependencies, Append(layers, layer)))

\* output_can_move_out without the special cases of "end" and of the search.
RECURSIVE output_can_move_out_any(_, _, _, _)
output_can_move_out_any(tmpl, search_flag, layers, layer) ==
  IF IsSub(layer) THEN output_can_move_out_any(tmpl, search_flag, layers, RootOf(layer))
  ELSE \A i \in 1..Len(layers) : ~InSeq(layer, tmpl[layers[i]].dependencies)

RECURSIVE output_can_move_out(_, _, _, _)
output_can_move_out(tmpl, search_flag, layers, layer) ==
  IF layer = "end" THEN FALSE
  ELSE IF search_flag /\ tmpl[layer].search_choices THEN FALSE
  ELSE IF IsSub(layer) THEN output_can_move_out(tmpl, search_flag, layers, RootOf(layer))
  ELSE \A i \in 1..Len(layers) : ~InSeq(layer, tmpl[layers[i]].dependencies)

\* input_can_move_out without the test of the layer's dependencies.
input_can_move_out_unchecked(tmpl, search_flag, layers, layer) ==
  IF layer = "end" THEN FALSE
  ELSE IF search_flag /\ tmpl[layer].search_choices THEN FALSE
  ELSE TRUE

RECURSIVE input_can_move_out(_, _, _, _)
input_can_move_out(tmpl, search_flag, layers, layer) ==
  IF layer = "end" THEN FALSE
  ELSE IF search_flag /\ tmpl[layer].search_choices THEN FALSE
  ELSE IF IsSub(layer) THEN input_can_move_out(tmpl, search_flag, layers, RootOf(layer))
  ELSE \A i \in 1..Len(layers) : ~InSeq(layers[i], tmpl[layer].dependencies)

\* find_..._layer_to_move_out: position of the first movable layer, 0 if none.
FirstIndex(layers, Can(_)) ==
  IF \E i \in 1..Len(layers) : Can(layers[i])
  THEN CHOOSE i \in 1..Len(layers) : Can(layers[i]) /\ \A j \in 1..(i - 1) : ~Can(layers[j])
  ELSE 0

find_output_layer_to_move_out(tmpl, search_flag, layers) ==
  FirstIndex(layers, LAMBDA l : output_can_move_out(tmpl, search_flag, layers, l))

find_input_layer_to_move_out(tmpl, search_flag, layers) ==
  FirstIndex(layers, LAMBDA l : input_can_move_out(tmpl, search_flag, layers, l))

\* The three lists of the cell.
Partition(layers, inputs, outputs) ==
  [layers_in_loop |-> layers, input_layers_moved_out |-> inputs,
   output_layers_moved_out |-> outputs]

\* output_move_out / input_move_out of the layer found, if any.
output_move_out(part, i) ==
  IF i = 0 THEN part
  ELSE [part EXCEPT !.layers_in_loop = RemoveFirst(@, part.layers_in_loop[i]),
                    !.output_layers_moved_out = Append(@, part.layers_in_loop[i])]

input_move_out(part, i) ==
  IF i = 0 THEN part
  ELSE [part EXCEPT !.layers_in_loop = RemoveFirst(@, part.layers_in_loop[i]),
                    !.input_layers_moved_out = Append(@, part.layers_in_loop[i])]

\* One iteration of the second loop: an output layer, then an input layer.
MoveBoth(tmpl, search_flag, part) ==
  LET p1 == output_move_out(part,
              find_output_layer_to_move_out(tmpl, search_flag, part.layers_in_loop))
  IN  input_move_out(p1, find_input_layer_to_move_out(tmpl, search_flag, p1.layers_in_loop))

\* All orders of iteration of a set of names.
RECURSIVE Perms(_)
Perms(S) ==
  IF S = {} THEN {<<>>}
  ELSE UNION {{<<x>> \o q : q \in Perms(S \ {x})} : x \in S}

\* needed_outputs of get_output: "output", the templates that are output
\* layers, and "end" when the sequence length is not known.
NeededOutputs(tmpl, known_seq_len) ==
  {"output"} \cup {x \in AllNames : tmpl[x].exists /\ tmpl[x].is_output_layer}
             \cup (IF known_seq_len THEN {} ELSE {"end"})

\* _move_outside_loop(needed_outputs), with needed_outputs iterated in the
\* order given: visit, the loop over output layers, the loop over both.
RECURSIVE MoveOutputs(_, _, _)
MoveOutputs(tmpl, search_flag, part) ==
  LET i == find_output_layer_to_move_out(tmpl, search_flag, part.layers_in_loop)
  IN  IF i = 0 THEN part ELSE MoveOutputs(tmpl, search_flag, output_move_out(part, i))

\* The second loop left after its first iteration.
MoveBothLoop_once(tmpl, search_flag, part) ==
  MoveBoth(tmpl, search_flag, part)

RECURSIVE MoveBothLoop(_, _, _)
MoveBothLoop(tmpl, search_flag, part) ==
  LET p1 == MoveBoth(tmpl, search_flag, part)
  IN  IF p1 = part THEN part ELSE MoveBothLoop(tmpl, search_flag, p1)

move_outside_loop(tmpl, search_flag, needed) ==
  MoveBothLoop(tmpl, search_flag,
    MoveOutputs(tmpl, search_flag, Partition(visit(tmpl, needed, <<>>), <<>>, <<>>)))

\* ------------------------------------------------------------- layer values
\* The value of a layer in one frame is the term of its computation: the
\* layer, the frame, and the values of its sources.  All layers are taken to have
\* the time axis of the rec layer (the branch for another time axis, rec.py
\* 1478-1482, is left out).
Val(op, name, t, args) == [op |-> op, name |-> name, t |-> t, args |-> args]

NoValue == Val("none", "", 0, <<>>)

\* _get_init_output(name): the initial output of a layer, for "prev:" in frame 0.
get_init_output(name) == Val("init", name, 0, <<>>)

\* The data of frame t (data_tensor_arrays[key].read(i), or the whole sequence).
DataValue(name, t) == Val("data", name, t, <<>>)

\* _construct_input_layers_moved_out.get_layer / get_prev_layer: a layer of
\* input_layers_net in frame t.  "prev:" is the sequence shifted by one frame,
\* with the initial output in front.
RECURSIVE InputLayerValue(_, _, _)
InputLayerValue(from, ref, t) ==
  IF ref.p
  THEN IF t = 0 THEN get_init_output(ref.n)
       ELSE InputLayerValue(from, Ref(ref.n, FALSE), t - 1)
  ELSE IF IsData(ref.n) THEN DataValue(ref.n, t)
  ELSE IF IsSub(ref.n)
  THEN Val("sub", ref.n, t, <<InputLayerValue(from, Ref(RootOf(ref.n), FALSE), t)>>)
  ELSE Val("layer", ref.n, t,
           [k \in 1..Len(from[ref.n]) |-> InputLayerValue(from, from[ref.n][k], t)])

\* ------------------------------------------------------------- _construct
\* State of one call of _construct (one frame of the loop):
\*   layers      self.net.layers of this frame (NoValue: not constructed)
\*   n_constructed   how often the layer of the name was made in this frame
\*   moved       keys of inputs_moved_out
\*   stack       the construction stack of self.net
\*   prev_read   the values handed out for "prev:" names in this frame
\*   fail        "" or the reason why the construction raised
NewConstruct ==
  [layers |-> [x \in AllNames |-> NoValue],
   n_constructed |-> [x \in AllNames |-> 0], moved |-> {}, stack |-> <<>>,
   prev_read |-> [x \in NetNames |-> NoValue], fail |-> ""]

CRet(cs, value) == [cs |-> cs, value |-> value]
CFail(cs, reason) == [cs |-> [cs EXCEPT !.fail = reason], value |-> NoValue]

\* get_input_moved_out reading at i for "prev:" as well.
get_input_moved_out_at_i(R, cs, ref) ==
  IF ref \in cs.moved /\ ~ref.p THEN CRet(cs, InputLayerValue(R.from, ref, R.i))
  ELSE IF ref \in cs.moved THEN CRet(cs, cs.prev_read[ref.n])
  ELSE IF Ref(ref.n, ~ref.p) \in cs.moved
  THEN CFail(cs, "currently cannot use both cur + prev frame")
  ELSE LET value == InputLayerValue(R.from, Ref(ref.n, FALSE), R.i)
       IN  CRet([cs EXCEPT !.moved = @ \cup {ref},
                           !.prev_read[ref.n] = IF ref.p THEN value ELSE @], value)

\* get_input_moved_out with the assertion for "prev:" names only.
get_input_moved_out_prev_only(R, cs, ref) ==
  IF ref \in cs.moved /\ ~ref.p THEN CRet(cs, InputLayerValue(R.from, ref, R.i))
  ELSE IF ref \in cs.moved THEN CRet(cs, cs.prev_read[ref.n])
  ELSE IF ref.p /\ Ref(ref.n, FALSE) \in cs.moved
  THEN CFail(cs, "currently cannot use both cur + prev frame")
  ELSE LET value == IF ref.p
                    THEN IF R.i = 0 THEN get_init_output(ref.n)
                         ELSE InputLayerValue(R.from, Ref(ref.n, FALSE), R.i - 1)
                    ELSE InputLayerValue(R.from, ref, R.i)
       IN  CRet([cs EXCEPT !.moved = @ \cup {ref},
                           !.prev_read[ref.n] = IF ref.p THEN value ELSE @], value)

\* _construct.get_input_moved_out(name): a layer moved before the loop, read
\* from its TensorArray at i, or at i - 1 (initial output in frame 0) for "prev:".
get_input_moved_out(R, cs, ref) ==
  IF ref \in cs.moved /\ ~ref.p THEN CRet(cs, InputLayerValue(R.from, ref, R.i))
  ELSE IF ref \in cs.moved THEN CRet(cs, cs.prev_read[ref.n])
  ELSE IF Ref(ref.n, ~ref.p) \in cs.moved
  THEN CFail(cs, "currently cannot use both cur + prev frame")
  ELSE LET value == IF ref.p
                    THEN IF R.i = 0 THEN get_init_output(ref.n)
                         ELSE InputLayerValue(R.from, Ref(ref.n, FALSE), R.i - 1)
                    ELSE InputLayerValue(R.from, ref, R.i)
       IN  CRet([cs EXCEPT !.moved = @ \cup {ref},
                           !.prev_read[ref.n] = IF ref.p THEN value ELSE @], value)

RECURSIVE InLoopGetLayer(_, _, _)
RECURSIVE InLoopConstructLayer(_, _, _)
RECURSIVE InLoopSources(_, _, _, _)

\* _construct.get_layer(name) that constructs the layers moved before the
\* loop in the frame.
InLoopGetLayer_construct_moved(R, cs, ref) ==
  IF cs.fail # "" THEN CRet(cs, NoValue)
  ELSE IF ref.p
  THEN IF ref.n \in R.pre THEN get_input_moved_out(R, cs, ref)
       ELSE IF ref.n \notin R.initial_outputs THEN CFail(cs, "KeyError")
       ELSE CRet([cs EXCEPT !.prev_read[ref.n] = R.prev_outputs[ref.n]],
                 R.prev_outputs[ref.n])
  ELSE IF ref.n \in R.post THEN CRet(cs, NoValue)
  ELSE InLoopConstructLayer(R, cs, ref.n)

\* _construct.get_layer(name)
InLoopGetLayer(R, cs, ref) ==
  IF cs.fail # "" THEN CRet(cs, NoValue)
  ELSE IF ref.p
  THEN IF ref.n \in R.pre THEN get_input_moved_out(R, cs, ref)
       ELSE IF ref.n \notin R.initial_outputs THEN CFail(cs, "KeyError")
       ELSE CRet([cs EXCEPT !.prev_read[ref.n] = R.prev_outputs[ref.n]],
                 R.prev_outputs[ref.n])
  ELSE IF ref.n \in R.pre THEN get_input_moved_out(R, cs, ref)
  ELSE IF ref.n \in R.post THEN CRet(cs, NoValue)
  ELSE InLoopConstructLayer(R, cs, ref.n)

\* self.net.construct_layer(net_dict, name, get_layer) inside the loop: a layer
\* is constructed once per frame, from the layers get_layer returns for its
\* "from" entries; a source that is None cannot be used.
InLoopConstructLayer(R, cs, name) ==
  IF cs.layers[name] # NoValue THEN CRet(cs, cs.layers[name])
  ELSE IF InSeq(name, cs.stack) THEN CFail(cs, "dependency loop")
  ELSE IF IsData(name)
  THEN CRet([cs EXCEPT !.layers[name] = DataValue(name, R.i),
                       !.n_constructed[name] = @ + 1], DataValue(name, R.i))
  ELSE IF IsSub(name)
  THEN LET r == InLoopGetLayer(R, cs, Ref(RootOf(name), FALSE))
           value == Val("sub", name, R.i, <<r.value>>)
       IN  IF r.cs.fail # "" THEN r
           ELSE IF r.value = NoValue THEN CFail(r.cs, "source is None")
           ELSE CRet([r.cs EXCEPT !.layers[name] = value,
                                  !.n_constructed[name] = @ + 1], value)
  ELSE LET r == InLoopSources(R, [cs EXCEPT !.stack = Append(@, name)], R.from[name], <<>>)
           cs1 == [r.cs EXCEPT !.stack = RemoveFirst(@, name)]
           value == Val("layer", name, R.i, r.value)
       IN  IF cs1.fail # "" THEN CRet(cs1, NoValue)
           ELSE CRet([cs1 EXCEPT !.layers[name] = value,
                                 !.n_constructed[name] = @ + 1], value)

\* transform_config_dict inside the loop: the sources, in order.
InLoopSources(R, cs, refs, values) ==
  IF cs.fail # "" \/ refs = <<>> THEN CRet(cs, values)
  ELSE LET r == InLoopGetLayer(R, cs, Head(refs))
       IN  IF r.cs.fail # "" THEN CRet(r.cs, values)
           ELSE IF r.value = NoValue THEN CFail(r.cs, "source is None")
           ELSE InLoopSources(R, r.cs, Tail(refs), Append(values, r.value))

\* _construct: get_layer for sorted(needed_outputs) + sorted(prev_layers_needed),
\* except the layers moved out of the loop.
RECURSIVE ConstructNeeded(_, _, _)
ConstructNeeded(R, cs, names) ==
  IF cs.fail # "" \/ names = <<>> THEN cs
  ELSE IF Head(names) \in R.pre \cup R.post THEN ConstructNeeded(R, cs, Tail(names))
  ELSE ConstructNeeded(R, InLoopGetLayer(R, cs, Ref(Head(names), FALSE)).cs, Tail(names))

construct_step(R) ==
  ConstructNeeded(R, NewConstruct, SeqOfSorted(R.needed_outputs) \o SeqOfSorted(R.prev_needed))

\* ------------------------------------- input_layers_net, output_layers_net
\* A net outside the loop: the names in its layers ("prev:" ones included),
\* and how often the layer of a name was made in it.
NewLayersNet == [layers |-> {}, n_constructed |-> [x \in AllNames |-> 0]]

\* add_layer(name, layer_class=InternalLayer): a layer that holds a given
\* output, not one of the net_dict.
add_internal_layer(N, ref) == [N EXCEPT !.layers = @ \cup {ref}]

\* add_layer for a layer of the net_dict, at the end of construct_layer.
add_constructed_layer(N, name) ==
  [N EXCEPT !.layers = @ \cup {Ref(name, FALSE)}, !.n_constructed[name] = @ + 1]

RECURSIVE InputNetGetLayer(_, _, _)
RECURSIVE InputNetConstructLayer(_, _, _)
RECURSIVE InputNetSources(_, _, _)

\* _construct_input_layers_moved_out.get_layer(name), with get_prev_layer.
InputNetGetLayer(from, N, ref) ==
  IF ref \in N.layers THEN N
  ELSE IF ref.p
  THEN add_internal_layer(InputNetGetLayer(from, N, Ref(ref.n, FALSE)), ref)
  ELSE InputNetConstructLayer(from, N, ref.n)

\* self.input_layers_net.construct_layer(self.net_dict, name, get_layer): an
\* existing layer is returned, a sub-layer is asked of its root layer.
InputNetConstructLayer(from, N, name) ==
  IF Ref(name, FALSE) \in N.layers THEN N
  ELSE IF IsData(name) THEN add_constructed_layer(N, name)
  ELSE IF IsSub(name) THEN InputNetGetLayer(from, N, Ref(RootOf(name), FALSE))
  ELSE add_constructed_layer(InputNetSources(from, N, from[name]), name)

InputNetSources(from, N, refs) ==
  IF refs = <<>> THEN N
  ELSE InputNetSources(from, InputNetGetLayer(from, N, Head(refs)), Tail(refs))

\* _construct_input_layers_moved_out: get_layer for the layers moved before
\* the loop, in their order.
RECURSIVE construct_input_layers_moved_out(_, _, _)
construct_input_layers_moved_out(from, N, names) ==
  IF names = <<>> THEN N
  ELSE construct_input_layers_moved_out(
         from, InputNetGetLayer(from, N, Ref(Head(names), FALSE)), Tail(names))

RECURSIVE OutputNetGetLayer(_, _, _)
RECURSIVE OutputNetConstructLayer(_, _, _)
RECURSIVE OutputNetSources(_, _, _)

\* _construct_output_layers_moved_out.get_layer(name), with get_prev_layer and
\* get_loop_acc_layer: only a layer moved behind the loop, or data, is
\* constructed; a layer moved before the loop is the one of input_layers_net,
\* a layer of the loop is an InternalLayer with its accumulated frames.
OutputNetGetLayer(S, N, ref) ==
  IF ref.p
  THEN IF ref \in N.layers THEN N
       ELSE add_internal_layer(OutputNetGetLayer(S, N, Ref(ref.n, FALSE)), ref)
  ELSE IF ref.n \in S.pre THEN N
  ELSE IF ref.n \in S.post \/ IsData(ref.n) THEN OutputNetConstructLayer(S, N, ref.n)
  ELSE add_internal_layer(N, ref)

\* self.output_layers_net.construct_layer(self.net_dict, name, get_layer)
OutputNetConstructLayer(S, N, name) ==
  IF Ref(name, FALSE) \in N.layers THEN N
  ELSE IF IsData(name) THEN add_constructed_layer(N, name)
  ELSE IF IsSub(name) THEN OutputNetGetLayer(S, N, Ref(RootOf(name), FALSE))
  ELSE add_constructed_layer(OutputNetSources(S, N, S.from[name]), name)

OutputNetSources(S, N, refs) ==
  IF refs = <<>> THEN N
  ELSE OutputNetSources(S, OutputNetGetLayer(S, N, Head(refs)), Tail(refs))

\* _construct_output_layers_moved_out: get_layer for the layers moved behind
\* the loop, in their order, then for the extra output layers.
RECURSIVE construct_output_layers_moved_out(_, _, _)
construct_output_layers_moved_out(S, N, names) ==
  IF names = <<>> THEN N
  ELSE construct_output_layers_moved_out(
         S, OutputNetGetLayer(S, N, Ref(Head(names), FALSE)), Tail(names))

\* --------------------------------------------------------------- get_output
\* The sequences of the batch.
Batch == {1, 2}

\* Longest sequence considered.
MaxLen == 2

SetMax(S) == IF S = {} THEN 0 ELSE CHOOSE x \in S : \A y \in S : y <= x

\* What the rec layer is run on:
\*   seq_len    per sequence, its length: known in advance (fixed_seq_len), or
\*              the frame in which its "end" layer first gives true
\*   used_data_keys   self.net.used_data_keys: the extern data (targets) the
\*              layers of the subnet use
\*   data_len   the length of this extern data
\*   max_seq_len_set, max_seq_len   the option max_seq_len of the rec layer
\*   include_eos   the option include_eos of the rec layer
\*   length_from   where get_output finds a length given in advance: "target"
\*              (rec_layer.output.size_placeholder or rec_layer.size_target),
\*              "input" (input_seq_len of the input of the rec layer) or
\*              "nothing"; "unread" until get_output looks
\* The input of the rec layer ("data:source") has a frame for every frame of
\* the loop.
Envs ==
  [seq_len : [Batch -> 0..MaxLen], used_data_keys : SUBSET {"classes"},
   data_len : 0..MaxLen, max_seq_len_set : BOOLEAN, max_seq_len : 0..MaxLen,
   include_eos : BOOLEAN, length_from : {"unread"}]

LengthFrom == {"target", "input", "nothing"}

\* get_output: without a fixed length and without an "end" layer the length
\* of the input is asserted to be there.
length_is_defined_always(length_from, has_end) ==
  TRUE

length_is_defined(length_from, has_end) ==
  length_from = "target" \/ has_end \/ length_from = "input"

\* get_output: fixed_seq_len is not None.
fixed_seq_len_known(length_from, has_end) ==
  length_from = "target" \/ (~has_end /\ length_from = "input")

\* The templates reached from the layers S through the dependencies.
RECURSIVE TemplateClosure(_, _)
TemplateClosure(tmpl, S) ==
  LET T == S \cup {d \in AllNames :
                     \E x \in S : tmpl[x].exists /\ InSeq(d, tmpl[x].dependencies)}
  IN  IF T = S THEN S ELSE TemplateClosure(tmpl, T)

\* end_layer.get_search_choices(): with search, the "end" layer has the beam
\* of a choice layer it depends on, in this frame or the previous one.
end_search_choices(net, tmpl) ==
  /\ net.search_flag
  /\ tmpl["end"].exists
  /\ \E x \in TemplateClosure(tmpl, {"end"}) : tmpl[x].exists /\ tmpl[x].search_choices

\* get_output without the accumulators for the layers moved behind the loop.
LoopSetup_without_post_deps(net, tmpl, part, needed, known, env, prev_needed) ==
  LET in_loop == Range(part.layers_in_loop)
      pre == Range(part.input_layers_moved_out)
      post == Range(part.output_layers_moved_out)
      extra_output_layers == {x \in AllNames : tmpl[x].exists /\ tmpl[x].is_output_layer}
      post_deps == {d \in in_loop : \E x \in post : InSeq(d, tmpl[x].dependencies)}
      data_used == env.used_data_keys # {}
      max_len == SetMax(Range(env.seq_len))
  IN  [from |-> net.from, in_loop |-> in_loop, pre |-> pre, post |-> post,
       extra_output_layers |-> extra_output_layers,
       acc_names |-> ({"output"} \cup extra_output_layers) \cap in_loop,
       needed_outputs |-> needed,
       prev_needed |-> prev_needed,
       initial_outputs |-> prev_needed \ (pre \cup post),
       known |-> known,
       input_layers_net |->
         construct_input_layers_moved_out(net.from, NewLayersNet, part.input_layers_moved_out),
       output_layers_net |-> NewLayersNet,
       end_choices |-> end_search_choices(net, tmpl),
       include_eos |-> env.include_eos,
       seq_len |-> env.seq_len,
       length_differs |-> known /\ data_used /\ env.data_len # max_len,
       limit_set |-> known \/ data_used \/ env.max_seq_len_set,
       limit |-> IF known THEN max_len
                 ELSE IF data_used THEN env.data_len
                 ELSE env.max_seq_len]

\* get_output between the partition and the loop: the accumulators (of
\* "output" and the output layers in the loop, and of the in-loop dependencies
\* of the layers moved behind the loop, which also become needed outputs),
\* _initial_outputs (get_init_loop_vars), and the local max_seq_len: the
\* longest known length, else the length of the extern data used, else none
\* (then cond falls back on the option max_seq_len).
LoopSetup(net, tmpl, part, needed, known, env, prev_needed) ==
  LET in_loop == Range(part.layers_in_loop)
      pre == Range(part.input_layers_moved_out)
      post == Range(part.output_layers_moved_out)
      extra_output_layers == {x \in AllNames : tmpl[x].exists /\ tmpl[x].is_output_layer}
      post_deps == {d \in in_loop : \E x \in post : InSeq(d, tmpl[x].dependencies)}
      data_used == env.used_data_keys # {}
      max_len == SetMax(Range(env.seq_len))
  IN  [from |-> net.from, in_loop |-> in_loop, pre |-> pre, post |-> post,
       extra_output_layers |-> extra_output_layers,
       acc_names |-> ({"output"} \cup extra_output_layers \cup post_deps) \cap in_loop,
       needed_outputs |-> needed \cup post_deps,
       prev_needed |-> prev_needed,
       initial_outputs |-> prev_needed \ (pre \cup post),
       known |-> known,
       input_layers_net |->
         construct_input_layers_moved_out(net.from, NewLayersNet, part.input_layers_moved_out),
       output_layers_net |-> NewLayersNet,
       end_choices |-> end_search_choices(net, tmpl),
       include_eos |-> env.include_eos,
       seq_len |-> env.seq_len,
       length_differs |-> known /\ data_used /\ env.data_len # max_len,
       limit_set |-> known \/ data_used \/ env.max_seq_len_set,
       limit |-> IF known THEN max_len
                 ELSE IF data_used THEN env.data_len
                 ELSE env.max_seq_len]

\* The loop variables: init_loop_vars.
InitLoopVars(S) ==
  [i |-> 0,
   net_vars |-> [x \in NetNames |-> IF x \in S.initial_outputs THEN get_init_output(x) ELSE NoValue],
   acc_tas |-> [x \in AllNames |-> <<>>],
   end_flag |-> [b \in Batch |-> FALSE],
   dyn_seq_len |-> [b \in Batch |-> 0],
   frames |-> <<>>,
   fail |-> ""]

\* cond with "i <= max_seq_len".
cond_le(S, lv) ==
  /\ lv.i <= S.limit
  /\ S.known \/ \E b \in Batch : ~lv.end_flag[b]

\* cond without the end flags.
cond_without_end(S, lv) == lv.i < S.limit

\* cond(i, net_vars, acc_tas, seq_len_info)
cond(S, lv) ==
  /\ lv.i < S.limit
  /\ S.known \/ \E b \in Batch : ~lv.end_flag[b]

\* The output of the "end" layer for sequence b in frame i.
EndOutput(S, b, i) == i = S.seq_len[b]

\* The step added to dyn_seq_len, with include_eos whatever the end layer.
seq_len_step_eos(S, prev_end, end_flag) ==
  IF (IF S.include_eos THEN prev_end ELSE end_flag) THEN 0 ELSE 1

\* The step added to dyn_seq_len without the test of the end flag.
seq_len_step_always(S, prev_end, end_flag) ==
  1

\* "dyn_seq_len += tf.where(...)": what the frame adds to the length of a
\* sequence, prev_end being the end flag before the frame (cur_end_layer, the
\* beam being of one hypothesis) and end_flag the one after it.  The option
\* include_eos is only looked at when the end layer has search choices.
seq_len_step(S, prev_end, end_flag) ==
  IF S.end_choices
  THEN (IF (IF S.include_eos THEN prev_end ELSE end_flag) THEN 0 ELSE 1)
  ELSE (IF end_flag THEN 0 ELSE 1)

\* write_to_tensor_array writing the first frame at index 1.
write_to_tensor_array_from_1(ta, index, value) ==
  IF value = NoValue THEN ta ELSE Append(ta, [index |-> index + 1, value |-> value])

\* OutputToAccumulate.write_to_tensor_array(ta, index): nothing is written
\* when get() returns None.
write_to_tensor_array(ta, index, value) ==
  IF value = NoValue THEN ta ELSE Append(ta, [index |-> index, value |-> value])

\* body(i, net_vars, acc_tas, seq_len_info): _construct, the new net_vars, the
\* end flag and the sequence lengths, the accumulator writes at i, then i + 1.
body(S, lv) ==
  LET R == [from |-> S.from, pre |-> S.pre, post |-> S.post, i |-> lv.i,
            initial_outputs |-> S.initial_outputs, prev_outputs |-> lv.net_vars,
            needed_outputs |-> S.needed_outputs, prev_needed |-> S.prev_needed]
      cs == construct_step(R)
      end_flag == [b \in Batch |-> lv.end_flag[b] \/ EndOutput(S, b, lv.i)]
  IN  IF cs.fail # "" THEN [lv EXCEPT !.fail = cs.fail]
      ELSE [lv EXCEPT
              !.i = lv.i + 1,
              !.net_vars = [x \in NetNames |->
                              IF x \in S.initial_outputs THEN cs.layers[x] ELSE NoValue],
              !.end_flag = IF S.known THEN @ ELSE end_flag,
              !.dyn_seq_len = IF S.known THEN @
                              ELSE [b \in Batch |->
                                      @[b] + seq_len_step(S, lv.end_flag[b], end_flag[b])],
              !.acc_tas = [x \in AllNames |->
                             IF x \in S.acc_names
                             THEN write_to_tensor_array(@[x], lv.i, cs.layers[x]) ELSE @[x]],
              !.frames = Append(@, [layers |-> cs.layers, prev_read |-> cs.prev_read,
                                    n_constructed |-> cs.n_constructed])]

\* Making the loop without the assertion that cond has a bound.
make_loop_fail_unbounded(S) ==
  IF S.length_differs THEN "length differs"
  ELSE IF S.in_loop = {} THEN ""
  ELSE body(S, InitLoopVars(S)).fail

\* What making the loop raises, "" if nothing: the lengths that differ, no
\* bound for a loop, or what the construction of the body raises.
make_loop_fail(S) ==
  IF S.length_differs THEN "length differs"
  ELSE IF S.in_loop = {} THEN ""
  ELSE IF ~S.limit_set THEN "specify max_seq_len"
  ELSE body(S, InitLoopVars(S)).fail

\* The while loop, from loop variables lv to its end.
RECURSIVE while_loop(_, _)
while_loop(S, lv) ==
  IF lv.fail # "" \/ ~cond(S, lv) THEN lv ELSE while_loop(S, body(S, lv))

\* Before get_output has run.
NoEnv == [seq_len |-> [b \in Batch |-> 0], used_data_keys |-> {}, data_len |-> 0,
          max_seq_len_set |-> FALSE, max_seq_len |-> 0, include_eos |-> FALSE,
          length_from |-> "unread"]

NoCell ==
  [from |-> [x \in NetNames |-> <<>>], in_loop |-> {}, pre |-> {}, post |-> {},
   extra_output_layers |-> {}, acc_names |-> {}, needed_outputs |-> {},
   prev_needed |-> {}, initial_outputs |-> {}, known |-> FALSE,
   input_layers_net |-> NewLayersNet, output_layers_net |-> NewLayersNet,
   end_choices |-> FALSE, include_eos |-> FALSE,
   seq_len |-> [b \in Batch |-> 0], length_differs |-> FALSE,
   limit_set |-> FALSE, limit |-> 0]

NoOutputs == [x \in AllNames |-> <<>>]

\* The entry written at index t of an accumulator (NoValue: none).
ReadAcc(ta, t) ==
  IF \E k \in 1..Len(ta) : ta[k].index = t
  THEN ta[CHOOSE k \in 1..Len(ta) : ta[k].index = t].value
  ELSE NoValue

\* _construct_output_layers_moved_out.get_layer / get_prev_layer: a layer of
\* the net behind the loop in frame t.  A layer moved before the loop comes
\* from input_layers_net, a layer of the loop from its accumulator
\* (get_loop_acc_layer, NoValue when there is none), a layer moved behind the
\* loop is constructed from its sources.
RECURSIVE OutputLayerValue(_, _, _, _)
OutputLayerValue(S, acc_tas, ref, t) ==
  IF ref.p
  THEN IF t = 0 THEN get_init_output(ref.n)
       ELSE OutputLayerValue(S, acc_tas, Ref(ref.n, FALSE), t - 1)
  ELSE IF ref.n \in S.pre THEN InputLayerValue(S.from, ref, t)
  ELSE IF IsData(ref.n) THEN DataValue(ref.n, t)
  ELSE IF ref.n \in S.post
  THEN IF IsSub(ref.n)
       THEN Val("sub", ref.n, t, <<OutputLayerValue(S, acc_tas, Ref(RootOf(ref.n), FALSE), t)>>)
       ELSE Val("layer", ref.n, t,
                [k \in 1..Len(S.from[ref.n]) |->
                   OutputLayerValue(S, acc_tas, S.from[ref.n][k], t)])
  ELSE ReadAcc(acc_tas[ref.n], t)

\* A value with no missing part.
RECURSIVE Defined(_)
Defined(v) == v # NoValue /\ \A k \in 1..Len(v.args) : Defined(v.args[k])

\* The layers get_output leaves as sequences over the frames: "output", the
\* output layers, and the layers moved behind the loop.
ResultNames(S) == {"output"} \cup S.extra_output_layers \cup S.post

\* The frames of the result: those of the loop, or max_seq_len when there is
\* no loop.
NumFrames(S, lv) == IF S.in_loop = {} THEN S.limit ELSE lv.i

FinalOutputs(S, lv) ==
  [x \in AllNames |->
     IF x \in ResultNames(S)
     THEN [k \in 1..NumFrames(S, lv) |-> OutputLayerValue(S, lv.acc_tas, Ref(x, FALSE), k - 1)]
     ELSE <<>>]

\* ------------------------------------------------------- _opt_search_resolve
\* The beam sizes; every choice layer of a cell has the same one, and the
\* initial beam before frame 0 has the one slot 0.  One sequence of the batch
\* is followed.
BeamSizes == {1, 2}

\* The slots of a beam of the size.
Beam(beam_size) == 0..(beam_size - 1)

\* Most frames accumulated.
MaxFrames == 2

\* The choice layers of one frame, from the latest to the first: the source
\* of each is the next one, the source of the last is "prev:" of the first.
choice_seq_in_frame == <<"output", "a">>

ChoiceNames == Range(choice_seq_in_frame)

\* What _opt_search_resolve works on: acc_ta of n frames, the accumulated
\* src_beams of every choice layer (final_acc_tas_dict["choice_..."]), the
\* choice layer whose beam the accumulated layer has, and whether it has it
\* from the previous frame.
SearchChoicesOf(n, beam_size) ==
  [n : {n},
   beam_size : {beam_size},
   src_beams : {f \in [0..(n - 1) -> [ChoiceNames -> [Beam(beam_size) -> Beam(beam_size)]]] :
                  n > 0 => \A b \in Beam(beam_size) :
                             f[0][choice_seq_in_frame[Len(choice_seq_in_frame)]][b] = 0},
   layer_choice : ChoiceNames,
   is_prev_choice : BOOLEAN]

NoSearchChoices ==
  [n |-> 0, beam_size |-> 1, src_beams |-> <<>>, layer_choice |-> "output", is_prev_choice |-> FALSE]

\* acc_ta.read(i): slot k of frame i of the accumulated output, as recorded.
AccEntry(i, k) == [frame |-> i, slot |-> k]

\* transform(i, idxs_exp, new_acc_output_ta_): frame i gathered by the slots.
transform(i, choice_beams, ta) ==
  Append(ta, [index |-> i, value |-> [b \in DOMAIN choice_beams |-> AccEntry(i, choice_beams[b])]])

\* The frame transform is called for, always i.
transform_frame_i(is_prev_choice, i) == i

\* The frame transform is called for, always i + 1.
transform_frame_next(is_prev_choice, i) == i + 1

\* The frame transform is called for: "(i + 1) if is_prev_choice else i".
transform_frame(is_prev_choice, i) ==
  IF is_prev_choice THEN i + 1 ELSE i

\* The loop variables of the search resolve loop.
ResolveVars(stage, i, choice_beams, ta) ==
  [stage |-> stage, i |-> i, choice_beams |-> choice_beams, new_acc_output_ta |-> ta]

\* search_resolve_body, "for choice_ in choice_seq_in_frame" from position k:
\* the slots are taken through the src_beams of each choice layer of frame i;
\* at layer_choice the frame is transformed, when there is a TensorArray.
RECURSIVE search_resolve_for(_, _, _, _)
search_resolve_for(ch, rv, k, with_ta) ==
  IF k > Len(choice_seq_in_frame) THEN [rv EXCEPT !.i = @ - 1]
  ELSE search_resolve_for(ch,
         [rv EXCEPT
            !.choice_beams =
               [b \in DOMAIN rv.choice_beams |-> ch.src_beams[rv.i][choice_seq_in_frame[k]][rv.choice_beams[b]]],
            !.new_acc_output_ta =
               IF with_ta /\ choice_seq_in_frame[k] = ch.layer_choice
               THEN transform(transform_frame(ch.is_prev_choice, rv.i), rv.choice_beams, @)
               ELSE @],
         k + 1, with_ta)

\* search_resolve_body(i, choice_beams, new_acc_output_ta_)
search_resolve_body(ch, rv, with_ta) == search_resolve_for(ch, rv, 1, with_ta)

\* search_resolve_cond(i), without frame 0.
search_resolve_cond_gt(rv) == rv.i > 0

\* search_resolve_cond(i)
search_resolve_cond(rv) ==
  rv.i >= 0

\* Before the loop: initial_i, initial_beam_choices, an empty TensorArray.
StartResolve(ch) ==
  ResolveVars("start", ch.n - 1, [b \in Beam(ch.beam_size) |-> b], <<>>)

\* ------------------------------------------------- ChoiceLayer, more sources
\* Most sources of a choice layer.
MaxSources == 2

\* The labels of a source (its feature dimension), and the slots of the
\* incoming beam.
Labels == {0, 1, 2}
IncomingBeam == {0, 1}

\* The orders the labels of a source can be scored in.
ScoreOrders == {<<2, 1, 0>>, <<1, 2, 0>>}

RECURSIVE Power(_, _)
Power(b, e) == IF e = 0 THEN 1 ELSE b * Power(b, e - 1)

\* _get_scores(source): the scores of the labels of source k in an order; the
\* scores of different sources are of different magnitude, so that a sum tells
\* its terms.
SourceScores(k, order) ==
  [l \in Labels |-> order[l + 1] * Power(Cardinality(Labels), k - 1)]

\* tf.nn.top_k(scores_in, k): the labels of the k best scores, best first, the
\* lower label first among equal scores.
RECURSIVE top_k_labels(_, _, _)
top_k_labels(scores_in, rest, k) ==
  IF k = 0 \/ rest = {} THEN <<>>
  ELSE LET best == CHOOSE l \in rest :
                     \A m \in rest :
                       scores_in[l] > scores_in[m] \/ (scores_in[l] = scores_in[m] /\ l <= m)
       IN  <<best>> \o top_k_labels(scores_in, rest \ {best}, k - 1)

\* pruned_labels and pruned_scores of the sources, for one slot of the beam.
PrunedLabels(scores_in, beam_sizes) ==
  [k \in 1..Len(beam_sizes) |-> top_k_labels(scores_in[k], Labels, beam_sizes[k])]

PrunedScores(scores_in, pruned_labels) ==
  [k \in 1..Len(pruned_labels) |->
     [j \in 1..Len(pruned_labels[k]) |-> scores_in[k][pruned_labels[k][j]]]]

\* "combined_scores_dim *= beam_size" over the sources from k on.
RECURSIVE CombinedScoresDim(_, _)
CombinedScoresDim(beam_sizes, k) ==
  IF k > Len(beam_sizes) THEN 1 ELSE beam_sizes[k] * CombinedScoresDim(beam_sizes, k + 1)

\* The sums of the pruned scores, every source on an axis of its own, and
\* tf.reshape to one axis: the entries along the axis of source k from entry
\* j on, each followed through the axes behind it, the last axis innermost.
RECURSIVE CombineAxis(_, _, _, _)
CombineAxis(pruned_scores, k, j, sum) ==
  IF k > Len(pruned_scores) THEN <<sum>>
  ELSE IF j > Len(pruned_scores[k]) THEN <<>>
  ELSE CombineAxis(pruned_scores, k + 1, 1, sum + pruned_scores[k][j])
         \o CombineAxis(pruned_scores, k, j + 1, sum)

\* _prune_and_combine_sources(sources, beam_sizes, batch_dim), by the slots of
\* the incoming beam.
prune_and_combine_sources(cl) ==
  LET pruned_labels == [r \in IncomingBeam |-> PrunedLabels(cl.scores_in[r], cl.beam_sizes)]
  IN  [cl EXCEPT
         !.stage = "combined",
         !.pruned_labels = pruned_labels,
         !.combined_scores =
            [r \in IncomingBeam |->
               CombineAxis(PrunedScores(cl.scores_in[r], pruned_labels[r]), 1, 1, 0)],
         !.combined_scores_dim = CombinedScoresDim(cl.beam_sizes, 1)]

\* The ids of the sources, the first source innermost.
RECURSIVE unravel_ids_forward(_, _, _)
unravel_ids_forward(combined_ids, beam_sizes, k) ==
  IF k = 0 THEN <<>>
  ELSE <<combined_ids % beam_sizes[Len(beam_sizes) - k + 1]>>
         \o unravel_ids_forward(combined_ids \div beam_sizes[Len(beam_sizes) - k + 1],
                                beam_sizes, k - 1)

\* "for beam_size in reversed(beam_sizes): ids_ = combined_ids % beam_size;
\* combined_ids //= beam_size", and "ids = reversed(ids)": the ids of the
\* sources 1..k.
RECURSIVE unravel_ids(_, _, _)
unravel_ids(combined_ids, beam_sizes, k) ==
  IF k = 0 THEN <<>>
  ELSE Append(unravel_ids(combined_ids \div beam_sizes[k], beam_sizes, k - 1),
              combined_ids % beam_sizes[k])

\* _get_combined_labels(combined_ids, src_beams, pruned_labels, beam_sizes) for
\* one outgoing hypothesis.
get_combined_labels(cl, combined_ids, src_beams) ==
  LET ids == unravel_ids(combined_ids, cl.beam_sizes, Len(cl.beam_sizes))
  IN  [cl EXCEPT
         !.stage = "labels",
         !.combined_ids = combined_ids,
         !.src_beams = src_beams,
         !.labels = [k \in 1..Len(cl.beam_sizes) |->
                       cl.pruned_labels[src_beams][k][ids[k] + 1]]]

\* A choice layer with the scores of its sources and source_beam_sizes.
NewChoiceLayer(scores_in, beam_sizes) ==
  [stage |-> "scores", scores_in |-> scores_in, beam_sizes |-> beam_sizes,
   pruned_labels |-> [r \in IncomingBeam |-> <<>>],
   combined_scores |-> [r \in IncomingBeam |-> <<>>],
   combined_scores_dim |-> 0, combined_ids |-> 0, src_beams |-> 0, labels |-> <<>>]

NoChoiceLayer == NewChoiceLayer([r \in IncomingBeam |-> <<>>], <<>>)

\* ------------------------------------------------------------------- state
VARIABLES
  pc,                       \* where the cell is in its life
  net,                      \* net_dict and the flags of the network
  ctx,                      \* the cell's templates and ConstructCtx
  sweep,                    \* layers the first sweep has still to construct
  loop_limit,               \* loop_limit of the refinement loop
  passes,                   \* refinement passes done
  have_known_seq_len,
  needed_outputs,
  layers_in_loop, input_layers_moved_out, output_layers_moved_out,
  env,                      \* what get_output runs on
  cell,                     \* what get_output sets up for the loop
  loop_vars,                \* the loop variables of the while loop
  outputs,                  \* the layers of the result, over the frames
  search_choices,           \* what _opt_search_resolve works on
  resolve,                  \* the loop variables of the search resolve loop
  choice_layer,             \* a choice layer with more than one source
  template_layers           \* template layers made and used one by one

build_vars == <<pc, net, ctx, sweep, loop_limit, passes>>
part_vars == <<have_known_seq_len, needed_outputs,
               layers_in_loop, input_layers_moved_out, output_layers_moved_out>>
loop_state == <<env, cell, loop_vars, outputs>>
resolve_state == <<search_choices, resolve, choice_layer, template_layers>>

\* The subnet definitions considered: "from" lists and flags, MaxRefs in all.
NetDict(fo, fa, fe, has_end, out_a, choice_a) ==
  [from |-> [x \in NetNames |->
              CASE x = "output" -> fo [] x = "a" -> fa [] x = "end" -> fe [] OTHER -> <<>>],
   declared |-> {"output", "a"} \cup (IF has_end THEN {"end"} ELSE {}),
   is_output_layer |-> IF out_a THEN {"a"} ELSE {},
   choices |-> IF choice_a THEN {"a"} ELSE {},
   search_flag |-> choice_a]

Flag(b) == IF b THEN 1 ELSE 0

\* After __init__ of the cell for net_dict n, to be run on e.
InitCell(n, e) ==
  /\ choice_layer = NoChoiceLayer
  /\ template_layers = NoTemplateLayers
  /\ search_choices = NoSearchChoices
  /\ resolve = StartResolve(NoSearchChoices)
  /\ net = n
  /\ ctx = StartConstructTemplate(n)
  /\ sweep = FirstSweep(n)
  /\ pc = "sweep"
  /\ loop_limit = 0
  /\ passes = 0
  /\ have_known_seq_len = FALSE
  /\ needed_outputs = {}
  /\ layers_in_loop = <<>>
  /\ input_layers_moved_out = <<>>
  /\ output_layers_moved_out = <<>>
  /\ env = e
  /\ cell = NoCell
  /\ loop_vars = InitLoopVars(NoCell)
  /\ outputs = NoOutputs

\* After __init__: no templates; _construct_template is about to run.
InitBuild ==
  \E fo \in FromListsUpTo(MaxRefs) :
    \E fa \in FromListsUpTo(MaxRefs - Len(fo)) :
      \E has_end, out_a, choice_a \in BOOLEAN :
        /\ Len(fo) + Len(fa) + Flag(out_a) + Flag(choice_a) <= MaxRefs
        /\ \E fe \in FromListsUpTo(
                   IF has_end THEN MaxRefs - Len(fo) - Len(fa) - Flag(out_a) - Flag(choice_a)
                   ELSE 0) :
             InitCell(NetDict(fo, fa, fe, has_end, out_a, choice_a), NoEnv)

\* _construct_template, first sweep: get_templated_layer.construct(name).
ConstructSweep ==
  /\ pc = "sweep"
  /\ \E s1 \in {construct(ctx, get_templated_layer, Head(sweep))} :
         /\ ctx' = [s1 EXCEPT !.loop_started = IF Tail(sweep) = <<>> THEN Len(s1.pf) ELSE @]
         /\ sweep' = Tail(sweep)
         /\ IF Tail(sweep) = <<>>
            THEN pc' = "refine" /\ loop_limit' = Len(s1.pf)
            ELSE pc' = "sweep" /\ loop_limit' = loop_limit
  /\ UNCHANGED <<net, passes>>
  /\ UNCHANGED part_vars
  /\ UNCHANGED loop_state
  /\ UNCHANGED resolve_state

\* _construct_template, one pass of "while ConstructCtx.partially_finished".
RefinePass ==
  /\ pc = "refine"
  /\ ctx.pf # <<>>
  /\ \E r \in {RefineFor([ctx EXCEPT !.pass_started = ctx.pf, !.pass_constructed = <<>>],
                          1, FALSE)} :
         /\ ctx' = r.st
         /\ passes' = passes + 1
         /\ IF Len(r.st.pf) < Len(ctx.pf)
            THEN pc' = "refine" /\ loop_limit' = loop_limit
            ELSE IF ~r.recent_changes
            THEN /\ pc' = IF \A i \in 1..Len(r.st.pf) : r.st.tmpl[r.st.pf[i]].is_initialized
                          THEN "constructed" ELSE "failed"
                 /\ loop_limit' = loop_limit
            ELSE /\ loop_limit' = loop_limit - 1
                 /\ pc' = IF loop_limit - 1 >= 0 THEN "refine" ELSE "failed"
  /\ UNCHANGED <<net, sweep>>
  /\ UNCHANGED part_vars
  /\ UNCHANGED loop_state
  /\ UNCHANGED resolve_state

\* _construct_template: nothing is partially finished any more.
RefineDone ==
  /\ pc = "refine"
  /\ ctx.pf = <<>>
  /\ pc' = "constructed"
  /\ UNCHANGED <<net, ctx, sweep, loop_limit, passes>>
  /\ UNCHANGED part_vars
  /\ UNCHANGED loop_state
  /\ UNCHANGED resolve_state

\* get_output without a length: no fixed length, no "end" layer and no input.
LengthNotDefined ==
  /\ pc = "constructed"
  /\ \E length_from \in LengthFrom :
       /\ ~length_is_defined(length_from, ctx.tmpl["end"].exists)
       /\ env' = [env EXCEPT !.length_from = length_from]
  /\ loop_vars' = [loop_vars EXCEPT !.fail = "length is not defined"]
  /\ pc' = "raised"
  /\ UNCHANGED <<net, ctx, sweep, loop_limit, passes, cell, outputs>>
  /\ UNCHANGED part_vars
  /\ UNCHANGED resolve_state

\* get_output with _optimize_move_layers_out: the length is known or not, then
\* _move_outside_loop.
MoveOutsideLoop ==
  /\ pc = "constructed"
  /\ \E length_from \in LengthFrom :
       /\ length_is_defined(length_from, ctx.tmpl["end"].exists)
       /\ env' = [env EXCEPT !.length_from = length_from]
       /\ \E known \in {fixed_seq_len_known(length_from, ctx.tmpl["end"].exists)} :
            \E order \in Perms(NeededOutputs(ctx.tmpl, known)) :
              LET part == move_outside_loop(ctx.tmpl, net.search_flag, order)
              IN  /\ have_known_seq_len' = known
                  /\ needed_outputs' = NeededOutputs(ctx.tmpl, known)
                  /\ layers_in_loop' = part.layers_in_loop
                  /\ input_layers_moved_out' = part.input_layers_moved_out
                  /\ output_layers_moved_out' = part.output_layers_moved_out
  /\ pc' = "partitioned"
  /\ UNCHANGED <<net, ctx, sweep, loop_limit, passes, cell, loop_vars, outputs>>
  /\ UNCHANGED resolve_state

\* get_output without _optimize_move_layers_out: all templates stay in the loop.
KeepLayersInLoop ==
  /\ pc = "constructed"
  /\ \E length_from \in LengthFrom :
       /\ length_is_defined(length_from, ctx.tmpl["end"].exists)
       /\ env' = [env EXCEPT !.length_from = length_from]
       /\ \E known \in {fixed_seq_len_known(length_from, ctx.tmpl["end"].exists)} :
            /\ have_known_seq_len' = known
            /\ needed_outputs' = NeededOutputs(ctx.tmpl, known)
  /\ layers_in_loop' = SeqOfSorted({x \in AllNames : ctx.tmpl[x].exists})
  /\ input_layers_moved_out' = <<>>
  /\ output_layers_moved_out' = <<>>
  /\ pc' = "not_optimized"
  /\ UNCHANGED <<net, ctx, sweep, loop_limit, passes, cell, loop_vars, outputs>>
  /\ UNCHANGED resolve_state

\* get_output up to the while loop: the accumulators, the initial loop
\* variables, and the loop itself, whose cond and body are built once when the
\* loop is made: what raises in them raises here.  Without layers in the loop
\* there is no loop ("no layers inside loop, all optimized out").
SetupLoop ==
  /\ pc \in {"partitioned", "not_optimized"}
  /\ LET part == [layers_in_loop |-> layers_in_loop,
                  input_layers_moved_out |-> input_layers_moved_out,
                  output_layers_moved_out |-> output_layers_moved_out]
         S == LoopSetup(net, ctx.tmpl, part, needed_outputs, have_known_seq_len, env,
                        ctx.prev_needed)
     IN  /\ cell' = S
         /\ needed_outputs' = S.needed_outputs
         /\ loop_vars' = [InitLoopVars(S) EXCEPT !.fail = make_loop_fail(S)]
         /\ pc' = IF make_loop_fail(S) # "" THEN "raised" ELSE "loop"
  /\ UNCHANGED <<net, ctx, sweep, loop_limit, passes, have_known_seq_len,
                 layers_in_loop, input_layers_moved_out, output_layers_moved_out,
                 env, outputs>>
  /\ UNCHANGED resolve_state

\* One iteration of the while loop: cond holds, body runs.
LoopBody ==
  /\ pc = "loop"
  /\ cell.in_loop # {}
  /\ cond(cell, loop_vars)
  /\ loop_vars' = body(cell, loop_vars)
  /\ UNCHANGED <<pc, net, ctx, sweep, loop_limit, passes, env, cell, outputs>>
  /\ UNCHANGED part_vars
  /\ UNCHANGED resolve_state

\* The loop is over (or there is none): _construct_output_layers_moved_out and
\* the result.
LoopExit ==
  /\ pc = "loop"
  /\ cell.in_loop # {} => ~cond(cell, loop_vars)
  /\ LET out == FinalOutputs(cell, loop_vars)
         ok == \A x \in AllNames : \A k \in 1..Len(out[x]) : Defined(out[x][k])
     IN  /\ outputs' = IF ok THEN out ELSE NoOutputs
         /\ loop_vars' = [loop_vars EXCEPT !.fail = IF ok THEN "" ELSE "KeyError"]
         /\ pc' = IF ok THEN "done" ELSE "raised"
         /\ cell' = [cell EXCEPT
                       !.output_layers_net =
                          IF ok
                          THEN construct_output_layers_moved_out(
                                 cell, NewLayersNet,
                                 output_layers_moved_out
                                   \o SeqOfSorted(cell.extra_output_layers))
                          ELSE @]
  /\ UNCHANGED <<net, ctx, sweep, loop_limit, passes, env>>
  /\ UNCHANGED part_vars
  /\ UNCHANGED resolve_state

vars == <<pc, net, ctx, sweep, loop_limit, passes, have_known_seq_len, needed_outputs,
          layers_in_loop, input_layers_moved_out, output_layers_moved_out,
          env, cell, loop_vars, outputs, search_choices, resolve, choice_layer,
          template_layers>>

\* Definitions with a fourth layer: "b" reads "a", "end" reads "b", and the
\* output reads "a", its sub-layer, or "b".
NetsWithB ==
  {[NetDict(fo, <<>>, <<Ref("b", FALSE)>>, TRUE, FALSE, FALSE)
      EXCEPT !.from["b"] = <<Ref("a", FALSE)>>, !.declared = @ \cup {"b"}] :
     fo \in {<<Ref("a/sub", FALSE)>>, <<Ref("a", FALSE)>>, <<Ref("b", FALSE)>>}}

InitWithB == \E n \in NetsWithB : InitCell(n, NoEnv)

Init == InitBuild \/ InitWithB

Next ==
  \/ ConstructSweep \/ RefinePass \/ RefineDone
  \/ LengthNotDefined \/ MoveOutsideLoop \/ KeepLayersInLoop

Spec == Init /\ [][Next]_vars

\* ------------------------------------------------------- running the loop
\* The construction and the partition, followed by get_output.
RunNext ==
  \/ ConstructSweep \/ RefinePass \/ RefineDone
  \/ LengthNotDefined \/ MoveOutsideLoop \/ KeepLayersInLoop
  \/ SetupLoop \/ LoopBody \/ LoopExit

\* Subnet definitions for the runs: no sub-layers, no choices, MaxLoopRefs
\* entries in all.
MaxLoopRefs == 2

LoopFromLists(n) == {s \in FromListsUpTo(n) : \A k \in 1..Len(s) : ~IsSub(s[k].n)}

\* All sequences of one length, max_seq_len large enough, no extern data.
ValueEnvs ==
  {e \in Envs : /\ \A b \in Batch : e.seq_len[b] = e.max_seq_len
                /\ e.max_seq_len_set
                /\ ~e.include_eos
                /\ e.used_data_keys = {} /\ e.data_len = 0}

InitLoop ==
  \E fo \in LoopFromLists(MaxLoopRefs) :
    \E fa \in LoopFromLists(MaxLoopRefs - Len(fo)) :
      \E has_end, out_a \in BOOLEAN :
        /\ Len(fo) + Len(fa) + Flag(out_a) <= MaxLoopRefs
        /\ \E fe \in LoopFromLists(
                   IF has_end THEN MaxLoopRefs - Len(fo) - Len(fa) - Flag(out_a) ELSE 0) :
             \E e \in ValueEnvs :
               InitCell(NetDict(fo, fa, fe, has_end, out_a, FALSE), e)

LoopSpec == InitLoop /\ [][RunNext]_vars

\* A few subnet definitions, run on every input: a recurrent output with an
\* "end" layer, an output that only reads the input, two layers that need a
\* refinement pass, an output layer besides "output", and with search a
\* choice layer that the output and the "end" layer read.
LengthNets ==
  {NetDict(<<Ref("output", TRUE), Ref("data:source", FALSE)>>, <<>>,
           <<Ref("output", FALSE)>>, TRUE, FALSE, FALSE),
   NetDict(<<Ref("data:source", FALSE)>>, <<>>, <<>>, FALSE, FALSE, FALSE),
   NetDict(<<Ref("a", TRUE)>>, <<Ref("output", FALSE)>>, <<Ref("a", FALSE)>>,
           TRUE, FALSE, FALSE),
   NetDict(<<Ref("a", FALSE)>>, <<Ref("data:source", FALSE)>>, <<Ref("output", TRUE)>>,
           TRUE, TRUE, FALSE),
   NetDict(<<Ref("a", FALSE)>>, <<Ref("a", TRUE)>>, <<Ref("a", FALSE)>>,
           TRUE, FALSE, TRUE)}

\* The fields that are not set are left at zero.
LengthEnvs ==
  {e \in Envs : /\ e.used_data_keys = {} => e.data_len = 0
                /\ ~e.max_seq_len_set => e.max_seq_len = 0}

InitLength == \E n \in LengthNets : \E e \in LengthEnvs : InitCell(n, e)

LengthSpec == InitLength /\ [][RunNext]_vars

\* ------------------------------------------------ properties of the partition
InLoop == Range(layers_in_loop)
PreLoop == Range(input_layers_moved_out)
PostLoop == Range(output_layers_moved_out)

NumSets(x) == Flag(x \in PreLoop) + Flag(x \in InLoop) + Flag(x \in PostLoop)

Templates == {x \in AllNames : ctx.tmpl[x].exists}

\* The names reached from needed_outputs through dependencies, data excluded.
RECURSIVE DepClosure(_)
DepClosure(S) ==
  LET T == S \cup {d \in AllNames \ DataNames :
                     \E x \in S : InSeq(d, ctx.tmpl[x].dependencies)}
  IN  IF T = S THEN S ELSE DepClosure(T)

ReachedFromNeeded == DepClosure(needed_outputs \ DataNames)

\* C1, as stated: after _move_outside_loop every key of layer_data_templates is
\* in exactly one of input_layers_moved_out, layers_in_loop and
\* output_layers_moved_out.
C1_EveryTemplateInExactlyOneSet ==
  pc = "partitioned" => \A x \in Templates : NumSets(x) = 1

\* C1, amended: after _move_outside_loop the names reached from needed_outputs
\* through dependencies (data layers excluded) are each in exactly one of the
\* three lists, and every other name is in none.
C1_ReachedInExactlyOneSet ==
  pc = "partitioned" =>
    \A x \in AllNames : NumSets(x) = (IF x \in ReachedFromNeeded THEN 1 ELSE 0)

\* C1 witness: a partition with all three lists used and a template left out.
C1_Witness ==
  /\ pc = "partitioned"
  /\ PreLoop # {} /\ InLoop # {} /\ PostLoop # {}
  /\ \E x \in Templates : x \notin ReachedFromNeeded

\* C2: after _move_outside_loop no layer of input_layers_moved_out has a
\* current-frame dependency in layers_in_loop.
C2_PreLoopReadsNothingInLoop ==
  pc = "partitioned" =>
    \A x \in PreLoop : \A d \in InLoop : ~InSeq(d, ctx.tmpl[x].cur_frame_dependencies)

\* C2 witness: a layer moved before the loop that reads another layer of the
\* subnet in the current frame, while the loop is not empty.
C2_Witness ==
  /\ pc = "partitioned"
  /\ InLoop # {}
  /\ \E x \in PreLoop : \E d \in NetNames : InSeq(d, ctx.tmpl[x].cur_frame_dependencies)

\* C3: after _move_outside_loop no layer of layers_in_loop has a current-frame
\* dependency in output_layers_moved_out.
C3_InLoopReadsNothingPostLoop ==
  pc = "partitioned" =>
    \A x \in InLoop : \A d \in PostLoop : ~InSeq(d, ctx.tmpl[x].cur_frame_dependencies)

\* C21: the loops of _move_outside_loop come to an end, every iteration but
\* the last of each moving a layer out of the layers visited, so that no more
\* layers are moved than were visited; and at the end no layer left in
\* layers_in_loop can move out as an output layer and none as an input layer.
C21_PartitionIsFixedPoint ==
  pc = "partitioned" =>
    /\ Len(input_layers_moved_out) + Len(output_layers_moved_out) + Len(layers_in_loop)
         = Cardinality(ReachedFromNeeded)
    /\ \A x \in InLoop :
         /\ ~output_can_move_out(ctx.tmpl, net.search_flag, layers_in_loop, x)
         /\ ~input_can_move_out(ctx.tmpl, net.search_flag, layers_in_loop, x)

\* C21 witness: a partition that took several iterations of the second loop:
\* two layers moved before the loop, and layers left in it.
C21_Witness ==
  /\ pc = "partitioned"
  /\ Len(input_layers_moved_out) >= 2
  /\ InLoop # {}

\* C22: after _move_outside_loop an "end" layer that is reached from
\* needed_outputs is in layers_in_loop, and with search so is every reached
\* layer that has search choices; neither is in input_layers_moved_out or in
\* output_layers_moved_out.
C22_EndAndChoicesStayInLoop ==
  pc = "partitioned" =>
    \A x \in AllNames :
      (x = "end" \/ (net.search_flag /\ ctx.tmpl[x].search_choices)) =>
        /\ x \notin PreLoop /\ x \notin PostLoop
        /\ x \in ReachedFromNeeded => x \in InLoop

\* C22 witness: with search, an "end" layer and a choice layer that nothing
\* in the loop reads are left in the loop, while another layer is moved out.
C22_Witness ==
  /\ pc = "partitioned" /\ net.search_flag
  /\ "end" \in InLoop
  /\ \E x \in InLoop \ {"end"} :
       /\ ctx.tmpl[x].search_choices
       /\ \A y \in InLoop : ~InSeq(x, ctx.tmpl[y].dependencies)
  /\ PreLoop \cup PostLoop # {}

SetOf(x) ==
  IF x \in PreLoop THEN "pre" ELSE IF x \in InLoop THEN "in"
  ELSE IF x \in PostLoop THEN "post" ELSE "none"

\* C25: after _move_outside_loop every sub-layer that is in one of the three
\* lists is in the same list as its root layer.
C25_SubLayerWithItsRoot ==
  pc = "partitioned" =>
    \A x \in SubNames : SetOf(x) # "none" => SetOf(x) = SetOf(RootOf(x))

\* ------------------------------------- properties of the template construction
\* The layers a layer of net_dict reads: its "from" entries (with or without
\* those of the previous frame); a sub-layer reads its root layer.
NetEdges(x, with_prev) ==
  IF x \in SubNames THEN {RootOf(x)}
  ELSE IF x \in DataNames THEN {}
  ELSE {net.from[x][i].n : i \in {j \in 1..Len(net.from[x]) : with_prev \/ ~net.from[x][j].p}}

RECURSIVE NetClosure(_, _)
NetClosure(S, with_prev) ==
  LET T == S \cup UNION {NetEdges(x, with_prev) : x \in S}
  IN  IF T = S THEN S ELSE NetClosure(T, with_prev)

\* The definition reachable from the roots is acyclic when "prev:" is ignored.
AcyclicFrom(roots) ==
  \A x \in NetClosure(roots, TRUE) : x \notin NetClosure(NetEdges(x, FALSE), FALSE)

InitializedFrom(roots) ==
  \A x \in NetClosure(roots, TRUE) : ctx.tmpl[x].exists /\ ctx.tmpl[x].is_initialized

SweepRoots == Range(FirstSweep(net))

\* C9, as stated: if the definition reachable from "output" is acyclic when
\* "prev:" is ignored, _construct_template does not raise, and when it is over
\* every name reachable from "output" has an initialized template.
C9_AcyclicFromOutputConstructs ==
  AcyclicFrom({"output"}) =>
    /\ pc # "failed"
    /\ pc = "constructed" => InitializedFrom({"output"})

\* C9, amended: if the definition reachable from the layers the first sweep
\* constructs ("output", "end", the output layers) is acyclic when "prev:" is
\* ignored, _construct_template does not raise, its refinement loop makes at
\* most one pass per template and one more, and when it is over every name
\* reachable from these layers, also through "prev:", has an initialized template.
C9_AcyclicFromRootsConstructs ==
  AcyclicFrom(SweepRoots) =>
    /\ pc # "failed"
    /\ passes <= Cardinality(Templates) + 1
    /\ pc = "constructed" => InitializedFrom(SweepRoots)

\* C9 witness: an acyclic definition constructed after a retry and a refinement
\* pass, with a layer that is read through "prev:" only.
C9_Witness ==
  /\ pc = "constructed"
  /\ AcyclicFrom(SweepRoots)
  /\ passes >= 1
  /\ ctx.excs # {}
  /\ \E x \in NetClosure(SweepRoots, TRUE) \ DataNames :
       x \notin NetClosure(SweepRoots, FALSE) /\ ctx.tmpl[x].is_initialized

\* C17, as stated: over a template construction the init of a template
\* succeeds at most once.
C17_InitSucceedsOnce ==
  \A x \in AllNames : ctx.tmpl[x].n_init <= 1

\* C17, amended: init has no check and succeeds on a template that is
\* initialized already.  A template is initialized exactly when its init has
\* succeeded at least once, and a template that the refinement loop has
\* constructed again and that is still listed as partially finished when the
\* construction returns has been initialized at least twice.
C17_InitSucceedsAgain ==
  \A x \in AllNames :
    /\ ctx.tmpl[x].exists => (ctx.tmpl[x].is_initialized <=> ctx.tmpl[x].n_init >= 1)
    /\ (pc = "constructed" /\ passes >= 1 /\ InSeq(x, ctx.pf)) => ctx.tmpl[x].n_init >= 2

\* C17 witness: a construction that returned with a template whose second
\* init gave it another descriptor than the dummy it was first initialized with.
C17_Witness ==
  /\ pc = "constructed" /\ passes >= 1
  /\ \E x \in AllNames :
       /\ ctx.tmpl[x].n_init >= 2 /\ ctx.tmpl[x].output # "dummy"
       /\ InSeq(x, ctx.pf)

\* C20, as stated: no descriptor is taken from a template that is not
\* initialized, so no initialized template carries the dummy descriptor that
\* only such a template has.
C20_NoDescriptorFromUninitialized ==
  \A x \in AllNames : ctx.tmpl[x].is_initialized => ctx.tmpl[x].output # "dummy"

\* C20, amended: a template that is not initialized has the dummy descriptor,
\* which can be read; a template initialized with the dummy descriptor, read
\* from a template that was not initialized, is listed as partially finished,
\* so that the refinement loop constructs it again.
C20_DummyDescriptorIsPartiallyFinished ==
  \A x \in AllNames :
    /\ (ctx.tmpl[x].exists /\ ~ctx.tmpl[x].is_initialized) => ctx.tmpl[x].output = "dummy"
    /\ (ctx.tmpl[x].is_initialized /\ ctx.tmpl[x].output = "dummy") => InSeq(x, ctx.pf)

\* C20 witness: after the first sweep a template is initialized with the dummy
\* descriptor of a template that is still not initialized.
C20_Witness ==
  /\ pc = "refine" /\ passes = 0
  /\ \E x, y \in AllNames :
       /\ ctx.tmpl[x].is_initialized /\ ctx.tmpl[x].output = "dummy" /\ InSeq(x, ctx.pf)
       /\ ctx.tmpl[y].exists /\ ~ctx.tmpl[y].is_initialized
       /\ InSeq(y, ctx.tmpl[x].dependencies)

\* C23: a pass of the refinement loop constructs again every layer that was
\* partially finished when the pass started.
C23_PassConstructsAllPartiallyFinished ==
  \A x \in Range(ctx.pass_started) : InSeq(x, ctx.pass_constructed)

C16_CurrentFrameCycleAborts ==
  ~AcyclicFrom({"output"}) => pc \in {"sweep", "refine", "failed"}

\* --------------------------------------------------- resolving the search
\* "if is_prev_choice": the choices of the last frame are resolved first, with
\* no TensorArray to write.
ResolveLastFrame ==
  /\ pc = "search_resolve"
  /\ resolve.stage = "start"
  /\ resolve' = [(IF search_choices.is_prev_choice /\ search_resolve_cond(resolve)
                  THEN search_resolve_body(search_choices, resolve, FALSE)
                  ELSE resolve) EXCEPT !.stage = "loop"]
  /\ UNCHANGED <<pc, net, ctx, sweep, loop_limit, passes, search_choices, choice_layer,
                 template_layers>>
  /\ UNCHANGED part_vars
  /\ UNCHANGED loop_state

\* One iteration of the search resolve loop.
SearchResolveBody ==
  /\ pc = "search_resolve"
  /\ resolve.stage = "loop"
  /\ search_resolve_cond(resolve)
  /\ resolve' = search_resolve_body(search_choices, resolve, TRUE)
  /\ UNCHANGED <<pc, net, ctx, sweep, loop_limit, passes, search_choices, choice_layer,
                 template_layers>>
  /\ UNCHANGED part_vars
  /\ UNCHANGED loop_state

\* The loop is over; "if is_prev_choice": the first frame, which is missing,
\* is transformed with slot 0 for every slot.
ResolveFirstFrame ==
  /\ pc = "search_resolve"
  /\ resolve.stage = "loop"
  /\ ~search_resolve_cond(resolve)
  /\ resolve' = [resolve EXCEPT
                   !.stage = "resolved",
                   !.new_acc_output_ta =
                      IF search_choices.is_prev_choice /\ 0 < search_choices.n
                      THEN transform(0, [b \in DOMAIN resolve.choice_beams |-> 0], @) ELSE @]
  /\ UNCHANGED <<pc, net, ctx, sweep, loop_limit, passes, search_choices, choice_layer,
                 template_layers>>
  /\ UNCHANGED part_vars
  /\ UNCHANGED loop_state

ResolveNext == ResolveLastFrame \/ SearchResolveBody \/ ResolveFirstFrame

\* A cell with search whose loop is over, and any accumulated choices of up to
\* MaxFrames frames.
\* A cell with search in stage p of the search, the loop apart.
InSearch(p) ==
  /\ pc = p
  /\ net = NetDict(<<Ref("a", FALSE)>>, <<Ref("output", TRUE)>>, <<>>, FALSE, FALSE, TRUE)
  /\ ctx = StartConstructTemplate(net)
  /\ sweep = <<>>
  /\ loop_limit = 0
  /\ passes = 0
  /\ have_known_seq_len = TRUE
  /\ needed_outputs = {}
  /\ layers_in_loop = <<>>
  /\ input_layers_moved_out = <<>>
  /\ output_layers_moved_out = <<>>
  /\ env = NoEnv
  /\ cell = NoCell
  /\ loop_vars = InitLoopVars(NoCell)
  /\ outputs = NoOutputs

InitResolve ==
  /\ \E n \in 0..MaxFrames : \E beam_size \in BeamSizes :
     \E ch \in SearchChoicesOf(n, beam_size) :
       /\ search_choices = ch
       /\ resolve = StartResolve(ch)
  /\ choice_layer = NoChoiceLayer
  /\ template_layers = NoTemplateLayers
  /\ InSearch("search_resolve")

ResolveSpec == InitResolve /\ [][ResolveNext]_vars

\* ------------------------------------------------ choosing from more sources
\* ChoiceLayer.__init__ with search: the sources are pruned and combined.
PruneAndCombineSources ==
  /\ pc = "choice"
  /\ choice_layer.stage = "scores"
  /\ choice_layer' = prune_and_combine_sources(choice_layer)
  /\ UNCHANGED <<pc, net, ctx, sweep, loop_limit, passes, search_choices, resolve,
                 template_layers>>
  /\ UNCHANGED part_vars
  /\ UNCHANGED loop_state

\* The labels of an outgoing hypothesis that the beam search has chosen, with
\* its place in the combined scores and its slot of the incoming beam.
GetCombinedLabels ==
  /\ pc = "choice"
  /\ choice_layer.stage = "combined"
  /\ \E src_beams \in IncomingBeam :
       \E combined_ids \in 0..(choice_layer.combined_scores_dim - 1) :
         choice_layer' = get_combined_labels(choice_layer, combined_ids, src_beams)
  /\ UNCHANGED <<pc, net, ctx, sweep, loop_limit, passes, search_choices, resolve,
                 template_layers>>
  /\ UNCHANGED part_vars
  /\ UNCHANGED loop_state

ChoiceNext == PruneAndCombineSources \/ GetCombinedLabels

\* A choice layer of 1..MaxSources sources, every one pruned to a beam size of
\* its own, the labels of every source scored in an order of its own for every
\* slot of the incoming beam.
InitChoice ==
  /\ \E n \in 1..MaxSources :
       \E beam_sizes \in [1..n -> 1..Cardinality(Labels)] :
         \E orders \in [IncomingBeam -> [1..n -> ScoreOrders]] :
           choice_layer =
             NewChoiceLayer([r \in IncomingBeam |->
                               [k \in 1..n |-> SourceScores(k, orders[r][k])]],
                            beam_sizes)
  /\ search_choices = NoSearchChoices
  /\ resolve = StartResolve(NoSearchChoices)
  /\ template_layers = NoTemplateLayers
  /\ InSearch("choice")

ChoiceSpec == InitChoice /\ [][ChoiceNext]_vars

\* The ids of the sources, one for each, within the beam sizes.
SourceIds ==
  {d \in [1..Len(choice_layer.beam_sizes) -> 0..(Cardinality(Labels) - 1)] :
     \A k \in 1..Len(d) : d[k] < choice_layer.beam_sizes[k]}

\* The place of the ids d of the sources from k on, the last source least
\* significant.
RECURSIVE MixedRadix(_, _)
MixedRadix(d, k) ==
  IF k > Len(d) THEN 0
  ELSE d[k] * CombinedScoresDim(choice_layer.beam_sizes, k + 1) + MixedRadix(d, k + 1)

RECURSIVE SumOver(_, _)
SumOver(f, k) == IF k = 0 THEN 0 ELSE f[k] + SumOver(f, k - 1)

\* The score of label j of source k after pruning, for slot r.
PrunedScore(r, k, j) ==
  choice_layer.scores_in[r][k][choice_layer.pruned_labels[r][k][j + 1]]

\* C14: the combined scores have b_1 * ... * b_n entries for every slot; the
\* entry at the place of the ids d is the sum of the pruned scores at d; and
\* the labels got for a place are the pruned labels at the ids of this place,
\* whose scores are summed in the entry.
C14_CombinedScoresAndLabels ==
  /\ choice_layer.stage \in {"combined", "labels"} =>
       \A r \in IncomingBeam :
         /\ Len(choice_layer.combined_scores[r]) = choice_layer.combined_scores_dim
         /\ Cardinality(SourceIds) = choice_layer.combined_scores_dim
         /\ \A d \in SourceIds :
              choice_layer.combined_scores[r][MixedRadix(d, 1) + 1] =
                SumOver([k \in 1..Len(d) |-> PrunedScore(r, k, d[k])], Len(d))
  /\ choice_layer.stage = "labels" =>
       \A d \in SourceIds :
         MixedRadix(d, 1) = choice_layer.combined_ids =>
           /\ \A k \in 1..Len(d) :
                choice_layer.labels[k] =
                  choice_layer.pruned_labels[choice_layer.src_beams][k][d[k] + 1]
           /\ choice_layer.combined_scores[choice_layer.src_beams][choice_layer.combined_ids + 1] =
                SumOver([k \in 1..Len(d) |->
                           choice_layer.scores_in[choice_layer.src_beams][k][
                             choice_layer.labels[k]]], Len(d))

\* C14 witness: sizes 2 and 3, six combined scores, the labels got for place 4
\* (ids 1 and 1).
C14_Witness ==
  /\ choice_layer.stage = "labels"
  /\ choice_layer.beam_sizes = <<2, 3>>
  /\ choice_layer.combined_scores_dim = 6
  /\ choice_layer.combined_ids = 4
  /\ \A k \in 1..2 :
       choice_layer.labels[k] =
         choice_layer.pruned_labels[choice_layer.src_beams][k][2]

\* The slot of the beam of the choice layer at position k of frame t that slot
\* b of the last frame comes from: the src_beams followed back from the latest
\* choice of the last frame.
RECURSIVE SlotBack(_, _, _)
SlotBack(t, k, b) ==
  IF k > 1
  THEN search_choices.src_beams[t][choice_seq_in_frame[k - 1]][SlotBack(t, k - 1, b)]
  ELSE IF t = search_choices.n - 1 THEN b
  ELSE search_choices.src_beams[t + 1][choice_seq_in_frame[Len(choice_seq_in_frame)]][
         SlotBack(t + 1, Len(choice_seq_in_frame), b)]

PositionOf(c) == CHOOSE k \in 1..Len(choice_seq_in_frame) : choice_seq_in_frame[k] = c

\* a_t(b): the slot of the layer's beam in frame t; with is_prev_choice this is
\* the beam of layer_choice in frame t - 1, and the initial beam in frame 0.
ResolvedSlot(t, b) ==
  IF ~search_choices.is_prev_choice
  THEN SlotBack(t, PositionOf(search_choices.layer_choice), b)
  ELSE IF t > 0 THEN SlotBack(t - 1, PositionOf(search_choices.layer_choice), b)
  ELSE search_choices.src_beams[0][choice_seq_in_frame[Len(choice_seq_in_frame)]][
         SlotBack(0, Len(choice_seq_in_frame), b)]

\* C10: after _opt_search_resolve the new TensorArray holds every frame t once,
\* and its slot b is the recorded slot a_t(b) of frame t, for a layer with the
\* beam of a choice of the frame and for one with the beam of the previous frame.
C10_ResolvedFollowsSrcBeams ==
  resolve.stage = "resolved" =>
    /\ Len(resolve.new_acc_output_ta) = search_choices.n
    /\ \A t \in 0..(search_choices.n - 1) :
         \E k \in 1..Len(resolve.new_acc_output_ta) :
           /\ resolve.new_acc_output_ta[k].index = t
           /\ \A b \in Beam(search_choices.beam_size) :
                resolve.new_acc_output_ta[k].value[b] = AccEntry(t, ResolvedSlot(t, b))

\* C10 witness: two frames resolved for a layer with the beam of the previous
\* frame, the slots of the last frame coming both from slot 1 of the first.
C10_Witness ==
  /\ resolve.stage = "resolved"
  /\ search_choices.n = 2 /\ search_choices.is_prev_choice
  /\ search_choices.beam_size = 2
  /\ \A b \in Beam(2) : ResolvedSlot(1, b) = 1
  /\ Len(resolve.new_acc_output_ta) = 2

\* C10 witness, beam of the frame: the slots of the first frame are exchanged.
C10_WitnessCurrent ==
  /\ resolve.stage = "resolved"
  /\ search_choices.n = 2 /\ ~search_choices.is_prev_choice
  /\ search_choices.beam_size = 2
  /\ \A b \in Beam(2) : ResolvedSlot(0, b) = 1 - b

\* The indices the new TensorArray was written at, in the order of the writes.
WrittenIndices ==
  [k \in 1..Len(resolve.new_acc_output_ta) |-> resolve.new_acc_output_ta[k].index]

\* The m indices below n, from n - 1 downwards.
Descending(n, m) == [k \in 1..m |-> n - k]

\* C30: the search resolve loop goes from frame T - 1 down to frame 0 and
\* stops at i = -1.  With the beam of the frame it has written, before frame
\* i, the frames T - 1 down to i + 1, one each; with the beam of the previous
\* frame the first step writes nothing and the frames T - 1 down to i + 2
\* are written.  At the end every frame from T - 1 down to 0 is written once,
\* with the beam of the previous frame frame 0 last and from slot 0.
C30_EveryFrameWrittenOnce ==
  LET T == search_choices.n
      prev == search_choices.is_prev_choice /\ T > 0
  IN  /\ resolve.i >= -1 /\ resolve.i <= T - 1
      /\ resolve.stage = "start" => resolve.i = T - 1 /\ WrittenIndices = <<>>
      /\ resolve.stage = "loop" =>
           WrittenIndices = Descending(T, T - 1 - resolve.i - (IF prev THEN 1 ELSE 0))
      /\ resolve.stage = "resolved" =>
           /\ resolve.i = -1
           /\ WrittenIndices = Descending(T, T)
           /\ prev => \A b \in Beam(search_choices.beam_size) :
                        resolve.new_acc_output_ta[T].value[b] = AccEntry(0, 0)

\* C30 witness: with the beam of the previous frame the loop has gone down to
\* i = -1 over two frames; frame 1 is written, frame 0 not yet.
C30_Witness ==
  /\ resolve.stage = "loop" /\ resolve.i = -1
  /\ search_choices.n = 2 /\ search_choices.is_prev_choice
  /\ WrittenIndices = <<1>>

\* acc_ta, unresolved: every frame as accumulated, in step order.
UnresolvedAcc ==
  [t \in 1..search_choices.n |->
     [index |-> t - 1,
      value |-> [b \in Beam(search_choices.beam_size) |-> AccEntry(t - 1, b)]]]

\* The frames of a TensorArray by index: the last write of each.
Stacked(ta) ==
  [t \in {ta[k].index : k \in 1..Len(ta)} |->
     ta[CHOOSE k \in 1..Len(ta) :
          /\ ta[k].index = t
          /\ \A j \in (k + 1)..Len(ta) : ta[j].index # t].value]

\* C11: with beam size 1 at every choice the resolved TensorArray has the
\* frames of the accumulated one, each with the accumulated value.
C11_BeamOneIsNoOp ==
  (resolve.stage = "resolved" /\ search_choices.beam_size = 1) =>
    Stacked(resolve.new_acc_output_ta) = Stacked(UnresolvedAcc)

\* C11 witness: two frames of beam size 1 resolved, for the beam of the
\* previous frame.
C11_Witness ==
  /\ resolve.stage = "resolved"
  /\ search_choices.beam_size = 1
  /\ search_choices.n = 2 /\ search_choices.is_prev_choice
  /\ Len(resolve.new_acc_output_ta) = 2

\* ------------------------------------------------------ properties of the loop
Min(a, b) == IF a < b THEN a ELSE b

\* The longest sequence of the batch.
LongestLen == SetMax(Range(env.seq_len))

\* The number of frames after which every sequence has given its end signal.
AllEndedAfter == LongestLen + 1

LoopRuns == pc \in {"loop", "done"} /\ cell.in_loop # {}

\* C5: the frames are counted from 0 in steps of one, and the accumulator of
\* every accumulated layer holds, after n iterations, exactly the writes at the
\* indices 0..n-1, one each and in this order; the other accumulators are never
\* written, and nothing is written once the loop is over.
C5_AccumulatorsWrittenInOrder ==
  LoopRuns =>
    /\ loop_vars.i = Len(loop_vars.frames)
    /\ \A x \in AllNames :
         IF x \in cell.acc_names
         THEN /\ Len(loop_vars.acc_tas[x]) = loop_vars.i
              /\ \A k \in 1..loop_vars.i : loop_vars.acc_tas[x][k].index = k - 1
         ELSE loop_vars.acc_tas[x] = <<>>

\* C5 witness: a loop that is over after two iterations, with two accumulators.
C5_Witness ==
  /\ pc = "done"
  /\ loop_vars.i = 2
  /\ Cardinality(cell.acc_names) >= 2
  /\ \A x \in cell.acc_names : Len(loop_vars.acc_tas[x]) = 2

\* C7, as stated: with a known length the loop makes exactly L iterations, L the
\* longest length of the batch.
C7_KnownLengthRunsLongestLen ==
  (pc = "done" /\ have_known_seq_len) => loop_vars.i = LongestLen

\* C7, amended: with a known length and layers left in the loop, the loop never
\* passes L iterations and is over after exactly L; with no layer left in the
\* loop there is no iteration; in both cases the result has L frames.
C7_KnownLengthRunsLongestLenIfLoop ==
  /\ (pc = "loop" /\ have_known_seq_len) => loop_vars.i <= LongestLen
  /\ (pc = "done" /\ have_known_seq_len) =>
       /\ loop_vars.i = (IF cell.in_loop # {} THEN LongestLen ELSE 0)
       /\ \A x \in ResultNames(cell) : Len(outputs[x]) = LongestLen

\* C7 witness: sequences of different lengths, the longest of two frames, and a
\* loop that is over.
C7_Witness ==
  /\ pc = "done" /\ have_known_seq_len
  /\ cell.in_loop # {}
  /\ LongestLen = 2 /\ \E b \in Batch : env.seq_len[b] < 2
  /\ loop_vars.i = 2

\* C8, as stated: without a known length and with the option max_seq_len, the
\* loop is over after the first number of iterations at which every sequence
\* has ended or max_seq_len is reached, and never makes more iterations than
\* max_seq_len.
C8_StopsAtEndOrMaxSeqLen ==
  /\ (LoopRuns /\ ~have_known_seq_len /\ env.max_seq_len_set) =>
       loop_vars.i <= env.max_seq_len
  /\ (pc = "done" /\ ~have_known_seq_len /\ env.max_seq_len_set) =>
       loop_vars.i = Min(AllEndedAfter, env.max_seq_len)

\* The bound of the loop without a known length: the length of the extern data
\* the subnet uses, and the option max_seq_len only when it uses none.
DynamicLimit == IF env.used_data_keys # {} THEN env.data_len ELSE env.max_seq_len

\* C8, amended: without a known length the loop is over after the first number
\* of iterations at which every sequence has ended or the bound is reached: the
\* length of the extern data the subnet uses or, when it uses none, the option
\* max_seq_len; it never makes more iterations than this bound.
C8_StopsAtEndOrLimit ==
  /\ (LoopRuns /\ ~have_known_seq_len) => loop_vars.i <= DynamicLimit
  /\ (pc = "done" /\ ~have_known_seq_len) =>
       loop_vars.i = Min(AllEndedAfter, DynamicLimit)

\* C8 witness: a loop over after more iterations than the option max_seq_len,
\* stopped by the length of the extern data before every sequence has ended.
C8_Witness ==
  /\ pc = "done" /\ ~have_known_seq_len
  /\ env.max_seq_len_set /\ env.used_data_keys # {}
  /\ loop_vars.i > env.max_seq_len
  /\ loop_vars.i = env.data_len
  /\ \E b \in Batch : ~loop_vars.end_flag[b]

\* ------------------------------------------- properties of the values in the loop
\* The value of layer x in frame t of a run, wherever the layer is computed.
LayerValue(S, lv, x, t) ==
  IF x \in S.pre THEN InputLayerValue(S.from, Ref(x, FALSE), t)
  ELSE IF x \in S.post THEN OutputLayerValue(S, lv.acc_tas, Ref(x, FALSE), t)
  ELSE lv.frames[t + 1].layers[x]

\* C6: what a layer of the loop reads for "prev:y" is the initial output of y
\* in frame 0 and the value of y in frame i - 1 in frame i > 0, for y in the
\* loop (prev_outputs) and for y moved before the loop (its TensorArray).
C6_PrevReadsPreviousFrame ==
  LoopRuns =>
    \A k \in 1..Len(loop_vars.frames) : \A y \in NetNames :
      loop_vars.frames[k].prev_read[y] # NoValue =>
        loop_vars.frames[k].prev_read[y] =
          (IF k = 1 THEN get_init_output(y) ELSE LayerValue(cell, loop_vars, y, k - 2))

\* C6 witness: a frame after frame 0 in which "prev:" is read both of a layer of
\* the loop and of a layer moved before the loop.
C6_Witness ==
  /\ LoopRuns
  /\ Len(loop_vars.frames) >= 2
  /\ \E y \in cell.in_loop \cap NetNames : loop_vars.frames[2].prev_read[y] # NoValue
  /\ \E y \in cell.pre \cap NetNames : loop_vars.frames[2].prev_read[y] # NoValue

\* The cell as get_output sets it up with all layers left in the loop.
NotOptimizedCell ==
  LoopSetup(net, ctx.tmpl, Partition(SeqOfSorted(Templates), <<>>, <<>>),
            NeededOutputs(ctx.tmpl, have_known_seq_len), have_known_seq_len, env,
            ctx.prev_needed)

\* The loop variables at the end of the run of cell S.
RunOf(S) ==
  IF make_loop_fail(S) # "" THEN [InitLoopVars(S) EXCEPT !.fail = make_loop_fail(S)]
  ELSE IF S.in_loop = {} THEN InitLoopVars(S)
  ELSE while_loop(S, InitLoopVars(S))

\* This run succeeds and has the frames and the layer values of the run ref of
\* cell R, if that one succeeded.
SameAsRun(R, ref) ==
  ref.fail = "" =>
    /\ pc = "done"
    /\ NumFrames(cell, loop_vars) = ref.i
    /\ \A x \in cell.pre \cup cell.in_loop \cup cell.post : \A t \in 0..(ref.i - 1) :
         LayerValue(cell, loop_vars, x, t) = LayerValue(R, ref, x, t)

\* C4: a run of get_output gives every layer in every frame the value it has
\* in the run with all layers left in the loop, and does not raise when that
\* run does not.
C4_SameAsNotOptimized ==
  pc \in {"done", "raised"} => SameAsRun(NotOptimizedCell, RunOf(NotOptimizedCell))
\* ----------------------------------------------------- the lengths reported
\* The sequences whose "end" layer gave true in a frame of the run.
Ended == {b \in Batch : loop_vars.end_flag[b]}

\* C12 as stated: a sequence that has ended has the length of the frames before
\* the one its "end" first gave true in, and one more with include_eos.
C12_LengthIsStepsBeforeEnd ==
  (pc = "done" /\ ~cell.known) =>
    \A b \in Ended :
      loop_vars.dyn_seq_len[b] = env.seq_len[b] + (IF env.include_eos THEN 1 ELSE 0)

\* C12: a sequence that has ended has the length of the frames before the one
\* its "end" first gave true in; it has one more with include_eos when the
\* "end" layer has search choices, and include_eos changes nothing otherwise.
C12_LengthIsStepsBeforeEndEosWithSearch ==
  (pc = "done" /\ ~cell.known) =>
    \A b \in Ended :
      loop_vars.dyn_seq_len[b] =
        env.seq_len[b] + (IF env.include_eos /\ cell.end_choices THEN 1 ELSE 0)

\* C12 witness: with search and include_eos, a sequence that ended in frame 1
\* has length 2, another that ended in frame 0 has length 1.
C12_Witness ==
  /\ pc = "done" /\ ~cell.known
  /\ cell.end_choices /\ env.include_eos
  /\ Ended = Batch
  /\ env.seq_len[1] = 1 /\ loop_vars.dyn_seq_len[1] = 2
  /\ env.seq_len[2] = 0 /\ loop_vars.dyn_seq_len[2] = 1

\* ------------------------------------------- how often a layer is constructed
\* A layer moved before the loop is made once, in input_layers_net, before the
\* loop; a layer moved behind it once, in output_layers_net, after the loop;
\* none of them is made in a frame of the loop, and no layer twice in a frame.
MovedOutConstructedOnce ==
  /\ pc \in {"loop", "done"} =>
       \A x \in cell.pre :
         cell.input_layers_net.n_constructed[x] = 1
           /\ cell.output_layers_net.n_constructed[x] = 0
  /\ pc = "done" =>
       \A x \in cell.post :
         cell.output_layers_net.n_constructed[x] = 1
           /\ cell.input_layers_net.n_constructed[x] = 0
  /\ pc \in {"loop", "done"} =>
       \A k \in 1..Len(loop_vars.frames) : \A x \in AllNames :
         /\ x \in cell.pre \cup cell.post => loop_vars.frames[k].n_constructed[x] = 0
         /\ loop_vars.frames[k].n_constructed[x] <= 1

\* The layers made in frame k of the loop, data aside.
MadeInFrame(k) ==
  {x \in AllNames \ DataNames : loop_vars.frames[k].n_constructed[x] > 0}

\* C13 as stated: the layers moved out are made once, outside the loop, and
\* only layers of the loop are made in a frame.
C13_OnlyInLoopConstructedPerStep ==
  /\ MovedOutConstructedOnce
  /\ pc \in {"loop", "done"} =>
       \A k \in 1..Len(loop_vars.frames) : MadeInFrame(k) \subseteq cell.in_loop

\* The layers that are in none of the three sets but are made in every frame:
\* those read with "prev:" (prev_layers_needed), and what they read.
UnreachedPrevNeeded ==
  TemplateClosure(ctx.tmpl, cell.prev_needed \ (cell.pre \cup cell.post))
    \ (cell.pre \cup cell.in_loop \cup cell.post)

\* C13: the layers moved out are made once, outside the loop, whatever the
\* number of frames; a layer made in a frame is a layer of the loop, or a
\* layer of none of the three sets that "prev:" needs, and is made once in
\* the frame.
C13_MovedOutConstructedOnce ==
  /\ MovedOutConstructedOnce
  /\ pc \in {"loop", "done"} =>
       \A k \in 1..Len(loop_vars.frames) :
         MadeInFrame(k) \subseteq cell.in_loop \cup UnreachedPrevNeeded

\* C13 witness: a run of two frames with a layer before the loop, one in it
\* and one behind it.
C13_Witness ==
  /\ pc = "done"
  /\ Len(loop_vars.frames) = 2
  /\ cell.pre # {} /\ cell.post # {} /\ cell.in_loop # {}
  /\ \E x \in cell.in_loop : \A k \in 1..2 : loop_vars.frames[k].n_constructed[x] = 1


\* ----------------------------------------------------- a length to run for
\* C26: with a dynamic length and without search choices of the "end" layer,
\* a step of the loop keeps the end flag of a sequence that has ended, does
\* not add to the length of such a sequence, and leaves no length above the
\* number of iterations done.
C26_EndFlagFreezesLength ==
  [][(pc = "loop" /\ ~cell.known /\ ~cell.end_choices) =>
       \A b \in Batch :
         /\ loop_vars.end_flag[b] =>
              /\ loop_vars'.end_flag[b]
              /\ loop_vars'.dyn_seq_len[b] = loop_vars.dyn_seq_len[b]
         /\ loop_vars'.dyn_seq_len[b] <= loop_vars'.i]_vars

\* C26 witness: a sequence ended two or more iterations ago, its "end" layer
\* gives false again, and the loop went on for another sequence.
C26_Witness ==
  /\ pc = "loop" /\ ~cell.known /\ ~cell.end_choices
  /\ \E b \in Batch :
       /\ loop_vars.end_flag[b]
       /\ loop_vars.i >= loop_vars.dyn_seq_len[b] + 2
       /\ ~EndOutput(cell, b, loop_vars.i - 1)

\* C27: with a dynamic length, when neither the extern data the subnet uses
\* nor the option max_seq_len bound the loop, get_output raises "specify
\* max_seq_len" and no iteration runs, whatever the "end" layer gives.
C27_NoLoopWithoutBound ==
  (cell # NoCell /\ ~cell.known /\ ~cell.limit_set) =>
    /\ pc = "raised"
    /\ loop_vars.fail = "specify max_seq_len"
    /\ loop_vars.i = 0

\* C27 witness: the assertion was raised for a subnet with an "end" layer in
\* the loop.
C27_Witness ==
  /\ pc = "raised" /\ loop_vars.fail = "specify max_seq_len"
  /\ ~cell.known /\ "end" \in cell.in_loop
  /\ env.used_data_keys = {} /\ ~env.max_seq_len_set

\* The layers in the loop read both x and "prev:x".
ReadBoth(x) ==
  /\ \E y \in cell.in_loop \cap NetNames : InSeq(Ref(x, FALSE), cell.from[y])
  /\ \E y \in cell.in_loop \cap NetNames : InSeq(Ref(x, TRUE), cell.from[y])

\* C28: when the layers in the loop read both the current and the previous
\* frame of a layer moved before the loop, the construction of the step
\* raises and no frame is made: the second of the two requests raises
\* "currently cannot use both cur + prev frame", unless the loop could not
\* be made at all or the construction has raised before that request.
C28_CurAndPrevOfPreLoopRaises ==
  (cell # NoCell /\ \E x \in cell.pre : ReadBoth(x)) =>
    /\ pc = "raised"
    /\ loop_vars.i = 0
    /\ \/ loop_vars.fail = "currently cannot use both cur + prev frame"
       \/ cell.length_differs
       \/ ~cell.limit_set
       \/ loop_vars.fail \in {"dependency loop", "KeyError", "source is None"}

\* C28 witness: the assertion was raised where a layer in the loop reads
\* "prev:x" before x, and nothing else is wrong.
C28_Witness ==
  /\ pc = "raised"
  /\ loop_vars.fail = "currently cannot use both cur + prev frame"
  /\ \E x \in cell.pre : \E y \in cell.in_loop \cap NetNames :
       \E j, k \in 1..Len(cell.from[y]) :
         j < k /\ cell.from[y][j] = Ref(x, TRUE) /\ cell.from[y][k] = Ref(x, FALSE)

\* The layers of the loop that _construct_output_layers_moved_out asks of
\* get_loop_acc_layer.
LoopAccLayersRequested ==
  {r.n : r \in {q \in construct_output_layers_moved_out(
                        cell, NewLayersNet,
                        output_layers_moved_out
                          \o SeqOfSorted(cell.extra_output_layers)).layers :
                  ~q.p /\ q.n \notin cell.pre \cup cell.post \cup DataNames}}

\* C29: a layer of the loop that a layer moved behind the loop depends on has
\* an accumulator and is a needed output, and the construction of the layers
\* behind the loop asks for accumulated layers of the loop only.
C29_PostLoopDependenciesAccumulated ==
  cell # NoCell =>
    /\ \A x \in cell.post : \A d \in Range(ctx.tmpl[x].dependencies) \cap cell.in_loop :
         d \in cell.acc_names /\ d \in cell.needed_outputs
    /\ LoopAccLayersRequested \subseteq cell.acc_names \cap cell.in_loop

\* C29 witness: the loop has run, and a layer moved behind it was made from
\* the accumulated frames of a layer of the loop other than "output".
C29_Witness ==
  /\ pc = "done" /\ loop_vars.i >= 2
  /\ \E x \in cell.post : \E d \in cell.in_loop \ {"output"} :
       /\ InSeq(d, ctx.tmpl[x].dependencies)
       /\ d \in LoopAccLayersRequested
       /\ Len(loop_vars.acc_tas[d]) = loop_vars.i

\* C15: a subnet without an "end" layer, run without a fixed length, a target
\* length or an input sequence, fails when get_output makes the loop: the
\* error is raised, nothing is partitioned and no loop is set up or run.
C15_NoLengthNoLoop ==
  ("end" \notin net.declared /\ env.length_from = "nothing") =>
    /\ pc = "raised" /\ loop_vars.fail = "length is not defined"
    /\ cell = NoCell /\ loop_vars.i = 0 /\ outputs = NoOutputs
    /\ layers_in_loop = <<>>

\* C15 witness: the error was raised for a subnet without an "end" layer.
C15_Witness ==
  /\ "end" \notin net.declared /\ env.length_from = "nothing"
  /\ pc = "raised" /\ loop_vars.fail = "length is not defined"


\* ------------------------------------------------- template layers one by one
\* The layers a template depends on, the descriptors it is initialized with,
\* and the most template layer objects considered.
DepNames == {"output", "a"}

TemplateOutputs == {"dummy", "shape"}

MaxTemplateLayers == 3

\* The most inits of one template layer.
MaxInits == 2

\* The templates of the cell: those that are no copy of another.
DataTemplates ==
  {i \in DOMAIN template_layers.layers : template_layers.layers[i].template_base = 0}

PrevTemplates == DOMAIN template_layers.layers \ DataTemplates

\* add_templated_layer: layer_.init(layer_class=layer_class, output=output, ...)
TemplateLayerInit ==
  /\ pc = "template"
  /\ \E i \in DataTemplates : \E output \in TemplateOutputs :
       /\ template_layers.layers[i].n_init < MaxInits
       /\ template_layers' = template_layer_init(template_layers, i, output, "template")
  /\ UNCHANGED <<pc, net, ctx, sweep, loop_limit, passes, search_choices, resolve,
                 choice_layer>>
  /\ UNCHANGED part_vars
  /\ UNCHANGED loop_state

\* get_layer: ConstructCtx.layers[-1].add_dependency(layer_, is_prev_time_frame)
AddDependency ==
  /\ pc = "template"
  /\ \E i \in DataTemplates : \E layer \in DepNames : \E is_prev_time_frame \in BOOLEAN :
       template_layers' =
         template_layer_add_dependency(template_layers, i, layer, is_prev_time_frame)
  /\ UNCHANGED <<pc, net, ctx, sweep, loop_limit, passes, search_choices, resolve,
                 choice_layer>>
  /\ UNCHANGED part_vars
  /\ UNCHANGED loop_state

\* get_layer("prev:..."), get_prev_template_layer: layer_.copy_as_prev_time_frame()
\* of a template that is initialized.
CopyAsPrevTimeFrame ==
  /\ pc = "template"
  /\ Len(template_layers.layers) < MaxTemplateLayers
  /\ \E i \in DataTemplates :
       /\ template_layers.layers[i].is_initialized
       /\ template_layers' = copy_as_prev_time_frame(template_layers, i)
  /\ UNCHANGED <<pc, net, ctx, sweep, loop_limit, passes, search_choices, resolve,
                 choice_layer>>
  /\ UNCHANGED part_vars
  /\ UNCHANGED loop_state

TemplateNext == TemplateLayerInit \/ AddDependency \/ CopyAsPrevTimeFrame

\* One template layer, just made.
InitTemplate ==
  /\ template_layers = new_template_layer(NoTemplateLayers, "a")
  /\ choice_layer = NoChoiceLayer
  /\ search_choices = NoSearchChoices
  /\ resolve = StartResolve(NoSearchChoices)
  /\ InSearch("template")

TemplateSpec == InitTemplate /\ [][TemplateNext]_vars

NoRepeats(s) == \A k, l \in 1..Len(s) : s[k] = s[l] => k = l

\* C18: add_dependency with the same layer and the same is_prev_time_frame a
\* second time changes nothing; a call puts the layer into the dependencies
\* and into prev_frame_dependencies when is_prev_time_frame, else into
\* cur_frame_dependencies, and leaves the other list as it is; no list ever
\* holds a layer twice.
C18_AddDependencyIdempotent ==
  \A i \in DataTemplates :
    LET tl == TemplateLayerAt(template_layers, i)
    IN  /\ NoRepeats(tl.dependencies)
        /\ NoRepeats(tl.cur_frame_dependencies)
        /\ NoRepeats(tl.prev_frame_dependencies)
        /\ \A layer \in DepNames : \A is_prev_time_frame \in BOOLEAN :
             LET H1 == template_layer_add_dependency(template_layers, i, layer,
                                                     is_prev_time_frame)
                 t1 == TemplateLayerAt(H1, i)
             IN  /\ template_layer_add_dependency(H1, i, layer, is_prev_time_frame) = H1
                 /\ InSeq(layer, t1.dependencies)
                 /\ IF is_prev_time_frame
                    THEN /\ InSeq(layer, t1.prev_frame_dependencies)
                         /\ t1.cur_frame_dependencies = tl.cur_frame_dependencies
                    ELSE /\ InSeq(layer, t1.cur_frame_dependencies)
                         /\ t1.prev_frame_dependencies = tl.prev_frame_dependencies

\* C18 witness: a template that got the same layer as a dependency of the
\* current and of the previous frame, and another layer besides.
C18_Witness ==
  \E i \in DataTemplates :
    LET tl == TemplateLayerAt(template_layers, i)
    IN  /\ tl.dependencies = <<"a", "output">>
        /\ tl.cur_frame_dependencies = <<"a">>
        /\ tl.prev_frame_dependencies = <<"a", "output">>


\* C19: copy_as_prev_time_frame gives a new initialized layer of the previous
\* frame with the descriptor and the dependencies of its base and leaves the
\* base as it is; the copy shares nothing with its base: a dependency added
\* to the base afterwards does not show in the copy.
C19_PrevLayerSharesNothing ==
  /\ \A i \in DataTemplates :
       template_layers.layers[i].is_initialized =>
         LET H1 == copy_as_prev_time_frame(template_layers, i)
             j == Len(H1.layers)
         IN  /\ j = Len(template_layers.layers) + 1
             /\ TemplateLayerAt(H1, i) = TemplateLayerAt(template_layers, i)
             /\ H1.layers[j].is_prev_time_frame /\ H1.layers[j].is_initialized
             /\ H1.layers[j].output = template_layers.layers[i].output
             /\ TemplateLayerAt(H1, j).dependencies =
                  TemplateLayerAt(template_layers, i).dependencies
  /\ \A j \in PrevTemplates :
       \A layer \in DepNames : \A is_prev_time_frame \in BOOLEAN :
         TemplateLayerAt(
           template_layer_add_dependency(template_layers,
                                         template_layers.layers[j].template_base,
                                         layer, is_prev_time_frame), j)
           = TemplateLayerAt(template_layers, j)

====
